---- MODULE Spec2Model ----
(***************************************************************************)
(* Bandit selector, reward aggregator and prediction ensemble of the        *)
(* self-adaptive controller.                                               *)
(*                                                                         *)
(* Two builds of the selector exist in the repository:                     *)
(*   variant = "strict"    the single-open-decision file (HasOpen /        *)
(*                         CurrentOpenID), src/unnamed/part_000            *)
(*   variant = "cooldown"  the cooldown-reuse file,                        *)
(*                         src/internal/predictive/mab.go                  *)
(* float64 values are fixed-point integers in units of 1/SCALE; NaN is a   *)
(* reserved value that every arithmetic and comparison helper propagates   *)
(* the way IEEE-754 does.                                                  *)
(***************************************************************************)
EXTENDS Integers, Sequences, FiniteSets, TLC

VARIABLES
    variant,        \* which build runs: "strict" or "cooldown"
    Config,         \* Bandit.Config
    Models,         \* Bandit.Models
    Q,              \* Bandit.Q      (map: model name -> value estimate)
    N,              \* Bandit.N      (map: model name -> visit count)
    T,              \* Bandit.T
    Pending,        \* Bandit.Pending (map: decision id -> pendingDecision)
    LastDecision,   \* Bandit.LastDecision
    HasLast,        \* Bandit.HasLast
    CurrentOpenID,  \* Bandit.CurrentOpenID (strict build only)
    HasOpen,        \* Bandit.HasOpen       (strict build only)
    samplesBandit,  \* the three outcome-sample buffers
    crashed,        \* the process died of an unrecovered panic
    ret,            \* the last API call: what was called, with what, what it returned
    hist,           \* bookkeeping about the run since the last InitBandit
    stormCfg,       \* the storm.adaptive.* and storm.deploy.* settings viper holds
    predictions,    \* the catalog: one PredictionInput per model
    indexChosenPredictor,
    InputRate,      \* topology.InputRate, the observed input history
    tasks,          \* the GetPredictionInput goroutines of the running PredictInput
    wg,             \* the WaitGroup counter of the running PredictInput
    pcPredict,      \* where PredictInput stands: "idle" or "wait"
    cycle,          \* bookkeeping about the prediction cycles
    result          \* the value the last call returned, <<>> if it returned none

vars == <<variant, Config, Models, Q, N, T, Pending, LastDecision, HasLast,
          CurrentOpenID, HasOpen, samplesBandit, crashed, ret, hist,
          stormCfg, predictions, indexChosenPredictor, InputRate, tasks, wg,
          pcPredict, cycle, result>>

banditVars == <<Config, Models, Q, N, T, Pending, LastDecision, HasLast,
                CurrentOpenID, HasOpen>>

\* the state of prediction.go
predictionVars == <<stormCfg, predictions, indexChosenPredictor, InputRate, tasks, wg,
                    pcPredict, cycle>>

-----------------------------------------------------------------------------
(* Bounds of the model *)

\* timestamps handed to ChooseArm are 1..MaxNow
MaxNow == 2
\* ChooseArm calls that register a decision, per InitBandit
MaxChoose == 3
\* samples UpdateBandit may accumulate in one buffer
MaxSamples == 2

-----------------------------------------------------------------------------
(* float64 as fixed point *)

SCALE == 10000

NaN == -2000000000

IsNaN(x) == x = NaN

FAdd(a, b) == IF IsNaN(a) \/ IsNaN(b) THEN NaN ELSE a + b

FSub(a, b) == IF IsNaN(a) \/ IsNaN(b) THEN NaN ELSE a - b

FMul(a, b) == IF IsNaN(a) \/ IsNaN(b) THEN NaN ELSE (a * b) \div SCALE

\* a / b for b > 0, or 0 / 0 (which is NaN); the quotient is taken in two
\* steps of 100 so that no intermediate product leaves 32 bits
FDiv(a, b) ==
    IF IsNaN(a) \/ IsNaN(b) THEN NaN
    ELSE IF b = 0 THEN NaN
    ELSE LET q  == a \div b
             r  == a % b
             q1 == (r * 100) \div b
             r1 == (r * 100) % b
             q2 == (r1 * 100) \div b
         IN  q * SCALE + q1 * 100 + q2

\* every comparison with NaN is false
FLt(a, b) == ~IsNaN(a) /\ ~IsNaN(b) /\ a < b

FGt(a, b) == ~IsNaN(a) /\ ~IsNaN(b) /\ a > b

FLe(a, b) == ~IsNaN(a) /\ ~IsNaN(b) /\ a <= b

FGe(a, b) == ~IsNaN(a) /\ ~IsNaN(b) /\ a >= b

\* float64(n) of an integer n
ToFloat(n) == n * SCALE

RECURSIVE ISqrtFrom(_, _, _)
ISqrtFrom(x, lo, hi) ==
    IF lo >= hi THEN lo
    ELSE LET mid == (lo + hi + 1) \div 2
         IN  IF mid * mid <= x THEN ISqrtFrom(x, mid, hi)
             ELSE ISqrtFrom(x, lo, mid - 1)

\* math.Sqrt on fixed point: sqrt(x / SCALE) * SCALE = sqrt(x * SCALE)
Sqrt(x) == IF IsNaN(x) \/ x < 0 THEN NaN ELSE ISqrtFrom(x * SCALE, 0, 46000)

\* math.Log(t) for the whole numbers t the round counter takes
LogTable == <<0, 6931, 10986, 13863, 16094, 17918, 19459, 20794, 21972, 23026,
              23979, 24849, 25649, 26391, 27081, 27726>>

Log(t) == LogTable[t]

\* math.Max(1, float64(t)) of a whole number t, kept as a whole number
Max1(t) == IF t < 1 THEN 1 ELSE t

-----------------------------------------------------------------------------
(* Go maps: a missing key reads as the zero value, an assignment adds the key *)

MapGet(m, k, zero) == IF k \in DOMAIN m THEN m[k] ELSE zero

MapSet(m, k, v) == [x \in (DOMAIN m) \cup {k} |-> IF x = k THEN v ELSE m[x]]

MapDelete(m, k) == [x \in (DOMAIN m) \ {k} |-> m[x]]

EmptyMap == [x \in {} |-> 0]

Range(s) == {s[i] : i \in DOMAIN s}

RECURSIVE SumOver(_, _)
SumOver(m, keys) ==
    IF keys = {} THEN 0
    ELSE LET k == CHOOSE x \in keys : TRUE
         IN  m[k] + SumOver(m, keys \ {k})

\* sum of N(m) over every key of N
SumN == SumOver(N, DOMAIN N)

-----------------------------------------------------------------------------
(* Types & configuration *)

AlgoUCB == "ucb"

AlgoEpsilon == "epsilon"

ZeroTime == 0

Times == 1..MaxNow

zeroDecision ==
    [DecisionID |-> "", ChosenModel |-> "", MadeAt |-> ZeroTime, CooldownUntil |-> ZeroTime]

\* the numeric part of BanditDefaultConfig
DefaultNumbers ==
    [Epsilon |-> 1000, C |-> 20000, Alpha |-> 1000, Gamma |-> 9800, UseAlpha |-> TRUE,
     DecisionPeriod |-> 1,
     Weights |-> [WLatency |-> 3400, WDegrade |-> 3300, WSaving |-> 3300],
     NormBounds |-> [Latency |-> [Min |-> 500000, Max |-> 5000000],
                     Degrade |-> [Min |-> 0, Max |-> 2500],
                     Saving  |-> [Min |-> 0, Max |-> 5000]]]

BanditConfig(algo, eps, cold, cooldown) ==
    [Algorithm |-> algo, Epsilon |-> eps, C |-> DefaultNumbers.C,
     Alpha |-> DefaultNumbers.Alpha, Gamma |-> DefaultNumbers.Gamma,
     UseAlpha |-> DefaultNumbers.UseAlpha,
     CooldownWindows |-> cooldown, DecisionPeriod |-> DefaultNumbers.DecisionPeriod,
     Weights |-> DefaultNumbers.Weights, NormBounds |-> DefaultNumbers.NormBounds,
     ColdStartRound |-> cold]

\* the configurations a run is started with: both algorithms and an unknown
\* one, cold start off and on, no cooldown and (for the two known
\* algorithms) a one-window cooldown; under
\* epsilon 0.5 the draws of Uniforms reach both the explore and the exploit
\* branch
Configs ==
    {BanditConfig(AlgoUCB, 0, cold, cd) : cold \in BOOLEAN, cd \in {0, 1}}
    \cup {BanditConfig(AlgoEpsilon, 5000, cold, cd) : cold \in BOOLEAN, cd \in {0, 1}}
    \cup {BanditConfig("other", 0, cold, 0) : cold \in BOOLEAN}

\* the strict build never reads CooldownWindows
ConfigsOf(v) == IF v = "strict" THEN {c \in Configs : c.CooldownWindows = 0} ELSE Configs

\* the catalogs a run is started with (names unique, in catalog order)
Catalogs == {<<>>, <<"A", "B">>, <<"A", "B", "C">>}

\* rng.Float64() draws
Uniforms == {0, 9999}

\* the outcome a caller reports to UpdateOutcome: latency 100 ms, degradation
\* 0.05, saving 0.2
Outcomes ==
    {[lat |-> 1000000, deg |-> 500, sav |-> 2000]}

decisionID(now) == "dec_" \o ToString(now)

\* the ids a caller hands to UpdateOutcome: any id ChooseArm can issue, pending
\* or not, and one it never issues
Ids == {decisionID(t) : t \in Times} \cup {"dec_stale"}

\* the ids the planner hands to UpdateStatsBandit: those, and the empty id
StatsIds == Ids \cup {""}

-----------------------------------------------------------------------------
(* Helpers *)

clamp01(x) == IF FLt(x, 0) THEN 0 ELSE IF FGt(x, SCALE) THEN SCALE ELSE x

norm01(x, b) == IF b.Max <= b.Min THEN 0 ELSE FDiv(FSub(x, b.Min), b.Max - b.Min)

\* Reward with the saving term taken as a cost, like the other two
Reward_SavingPenalised(cfg, latencyMs, degrade, saving) ==
    LET deg  == clamp01(degrade)
        sav  == clamp01(saving)
        latN == clamp01(norm01(latencyMs, cfg.NormBounds.Latency))
        degN == clamp01(norm01(deg, cfg.NormBounds.Degrade))
        savN == clamp01(norm01(sav, cfg.NormBounds.Saving))
    IN  FAdd(FAdd(FMul(cfg.Weights.WLatency, FSub(SCALE, latN)),
                  FMul(cfg.Weights.WDegrade, FSub(SCALE, degN))),
             FMul(cfg.Weights.WSaving, FSub(SCALE, savN)))

\* the reward of UpdateOutcome for raw metrics under configuration cfg
Reward(cfg, latencyMs, degrade, saving) ==
    LET deg  == clamp01(degrade)
        sav  == clamp01(saving)
        latN == clamp01(norm01(latencyMs, cfg.NormBounds.Latency))
        degN == clamp01(norm01(deg, cfg.NormBounds.Degrade))
        savN == clamp01(norm01(sav, cfg.NormBounds.Saving))
    IN  FAdd(FAdd(FMul(cfg.Weights.WLatency, FSub(SCALE, latN)),
                  FMul(cfg.Weights.WDegrade, FSub(SCALE, degN))),
             FMul(cfg.Weights.WSaving, savN))

\* NewQ with the configured step used as it is, never replaced
NewQ_KeepsConfigured(cfg, oldQ, r) ==
    IF cfg.UseAlpha
    THEN FAdd(FMul(SCALE - cfg.Alpha, oldQ), FMul(cfg.Alpha, r))
    ELSE FAdd(FMul(cfg.Gamma, oldQ), FMul(SCALE - cfg.Gamma, r))

\* NewQ with the two weights exchanged: the step on the old estimate
NewQ_WeightsExchanged(cfg, oldQ, r) ==
    IF cfg.UseAlpha
    THEN LET alpha == IF cfg.Alpha <= 0 \/ cfg.Alpha > SCALE THEN 1000 ELSE cfg.Alpha
         IN  FAdd(FMul(alpha, oldQ), FMul(SCALE - alpha, r))
    ELSE LET gamma == IF cfg.Gamma <= 0 \/ cfg.Gamma >= SCALE THEN 9800 ELSE cfg.Gamma
         IN  FAdd(FMul(SCALE - gamma, oldQ), FMul(gamma, r))

\* the new value estimate of UpdateOutcome
NewQ(cfg, oldQ, r) ==
    IF cfg.UseAlpha
    THEN LET alpha == IF cfg.Alpha <= 0 \/ cfg.Alpha > SCALE THEN 1000 ELSE cfg.Alpha
         IN  FAdd(FMul(SCALE - alpha, oldQ), FMul(alpha, r))
    ELSE LET gamma == IF cfg.Gamma <= 0 \/ cfg.Gamma >= SCALE THEN 9800 ELSE cfg.Gamma
         IN  FAdd(FMul(gamma, oldQ), FMul(SCALE - gamma, r))

\* ColdStartScan with the early return lost: the last unseen model wins
ColdStartScan_LastUnseen(i) ==
    LET unseen == {j \in i..Len(Models) : MapGet(N, Models[j], 0) = 0}
    IN  IF unseen = {} THEN ""
        ELSE Models[CHOOSE j \in unseen : \A h \in unseen : h <= j]

\* the cold-start scan: the first catalog model never credited, "" if none
RECURSIVE ColdStartScan(_)
ColdStartScan(i) ==
    IF i > Len(Models) THEN ""
    ELSE IF MapGet(N, Models[i], 0) = 0 THEN Models[i]
    ELSE ColdStartScan(i + 1)

UCBScore(m, t) ==
    LET n     == MapGet(N, m, 0)
        bonus == FMul(Config.C, Sqrt(FDiv(Log(Max1(t)), ToFloat(n + 1))))
    IN  FAdd(MapGet(Q, m, 0), bonus)

\* ArgMaxScan with ">=" for ">": the last model of maximum score wins
RECURSIVE ArgMaxScan_LastWins(_, _, _, _)
ArgMaxScan_LastWins(score, i, best, chosen) ==
    IF i > Len(Models) THEN chosen
    ELSE LET s      == score[i]
             better == IF best = <<>> THEN ~IsNaN(s) ELSE FGe(s, best[1])
         IN  IF better THEN ArgMaxScan_LastWins(score, i + 1, <<s>>, Models[i])
             ELSE ArgMaxScan_LastWins(score, i + 1, best, chosen)

\* the scan "if score > best { best = score; chosen = m }" from index i on;
\* best = "-inf" stands for math.Inf(-1), which every number but NaN exceeds
RECURSIVE ArgMaxScan(_, _, _, _)
ArgMaxScan(score, i, best, chosen) ==
    IF i > Len(Models) THEN chosen
    ELSE LET s      == score[i]
             better == IF best = <<>> THEN ~IsNaN(s) ELSE FGt(s, best[1])
         IN  IF better THEN ArgMaxScan(score, i + 1, <<s>>, Models[i])
             ELSE ArgMaxScan(score, i + 1, best, chosen)

UCBChoice(t) == ArgMaxScan([i \in DOMAIN Models |-> UCBScore(Models[i], t)], 1, <<>>, "")

GreedyChoice == ArgMaxScan([i \in DOMAIN Models |-> MapGet(Q, Models[i], 0)], 1, <<>>, "")

\* Selection with "Bandit.T++" missing from the UCB1 case
Selection_UCBKeepsT(u, k) ==
    CASE Config.Algorithm = AlgoUCB ->
            [panic |-> FALSE, tInc |-> 0, chosen |-> UCBChoice(T + 1), path |-> "ucb"]
      [] Config.Algorithm = AlgoEpsilon ->
            IF FLt(u, Config.Epsilon)
            THEN IF Len(Models) = 0
                 THEN [panic |-> TRUE, tInc |-> 1, chosen |-> "", path |-> "panic"]
                 ELSE [panic |-> FALSE, tInc |-> 1, chosen |-> Models[k], path |-> "explore"]
            ELSE [panic |-> FALSE, tInc |-> 1, chosen |-> GreedyChoice, path |-> "exploit"]
      [] OTHER ->
            [panic |-> TRUE, tInc |-> 0, chosen |-> "", path |-> "panic"]

\* the switch on Config.Algorithm of ChooseArm, with the rng draws u (Float64)
\* and k (Intn); T has not been incremented yet
Selection(u, k) ==
    CASE Config.Algorithm = AlgoUCB ->
            [panic |-> FALSE, tInc |-> 1, chosen |-> UCBChoice(T + 1), path |-> "ucb"]
      [] Config.Algorithm = AlgoEpsilon ->
            IF FLt(u, Config.Epsilon)
            THEN IF Len(Models) = 0
                 THEN [panic |-> TRUE, tInc |-> 1, chosen |-> "", path |-> "panic"]
                 ELSE [panic |-> FALSE, tInc |-> 1, chosen |-> Models[k], path |-> "explore"]
            ELSE [panic |-> FALSE, tInc |-> 1, chosen |-> GreedyChoice, path |-> "exploit"]
      [] OTHER ->
            [panic |-> TRUE, tInc |-> 0, chosen |-> "", path |-> "panic"]

\* rng.Intn(len(Models)) draws
IntnDraws == IF Len(Models) = 0 THEN {0} ELSE 1..Len(Models)

-----------------------------------------------------------------------------
(* Bookkeeping of the run, beside the program's state *)

noRet == [op |-> "none", id |-> "", model |-> "", path |-> ""]

Ret(op, id, model, path) ==
    [op |-> op, id |-> id, model |-> model, path |-> path]

\* returned   what each ChooseArm call since InitBandit returned: the id and
\*            the model, T after the call, and the path the call took
\* clean      every call so far belongs to a choose/close cycle: each
\*            ChooseArm was followed by UpdateOutcome of the id it returned
\* open       the id returned by the last ChooseArm and not closed yet
\* closes     UpdateOutcome calls that credited a decision
\* closedFresh  those of them whose decision was not a cooldown reuse
\* reuseIds   pending ids issued by a cooldown reuse
\* tags       for each sample now in the buffers, the decisions that were
\*            pending when UpdateBandit recorded it
\* issued     the ids under which a decision was opened since InitBandit
histInit ==
    [returned |-> <<>>, clean |-> TRUE, open |-> "", closes |-> 0, closedFresh |-> 0,
     reuseIds |-> {}, tags |-> <<>>, issued |-> {}]

HistChoose(id, model, t, path) ==
    [hist EXCEPT !.returned = Append(@, [id |-> id, model |-> model, t |-> t,
                                            path |-> path]),
                 !.clean = @ /\ hist.open = "",
                 !.open = id,
                 !.reuseIds = IF path = "reask" THEN @
                              ELSE IF path = "reuse" THEN @ \cup {id} ELSE @ \ {id},
                 !.issued = IF path = "reask" THEN @ ELSE @ \cup {id}]

HistClose(id) ==
    IF id \in DOMAIN Pending
    THEN [hist EXCEPT !.closes = @ + 1,
                      !.closedFresh = IF id \in hist.reuseIds THEN @ ELSE @ + 1,
                      !.clean = @ /\ id = hist.open,
                      !.open = IF id = hist.open THEN "" ELSE @,
                      !.reuseIds = @ \ {id}]
    ELSE [hist EXCEPT !.clean = FALSE]

NoReuse == \A i \in DOMAIN hist.returned : hist.returned[i].path # "reuse"

-----------------------------------------------------------------------------
(* Initialization *)

\* prediction.go before InitPrediction: nothing configured, nothing running
cycleInit == [n |-> 0, before |-> <<>>, down |-> {}, calls |-> <<>>]

PredictionIdle ==
    /\ stormCfg = [predictive_model |-> "", selector_model |-> "", dataset |-> "",
                   analyze_samples |-> 0, prediction_samples |-> 0,
                   prediction_number |-> 0]
    /\ predictions = <<>>
    /\ indexChosenPredictor = 0
    /\ InputRate = <<>>
    /\ tasks = <<>>
    /\ wg = 0
    /\ pcPredict = "idle"
    /\ cycle = cycleInit

samplesEmpty == [SavedResources |-> <<>>, ThroughputDegradation |-> <<>>, Latency |-> <<>>]

\* the state InitBandit(models, cfg) builds
BanditInit(models, cfg) ==
    /\ Config = cfg
    /\ Models = models
    /\ Q = [m \in Range(models) |-> 0]
    /\ N = [m \in Range(models) |-> 0]
    /\ T = 0
    /\ Pending = EmptyMap
    /\ LastDecision = zeroDecision
    /\ HasLast = FALSE
    /\ CurrentOpenID = ""
    /\ HasOpen = FALSE

Init ==
    /\ variant \in {"strict", "cooldown"}
    /\ \E models \in Catalogs : \E cfg \in ConfigsOf(variant) : BanditInit(models, cfg)
    /\ samplesBandit = samplesEmpty
    /\ crashed = FALSE
    /\ ret = noRet
    /\ hist = histInit
    /\ PredictionIdle
    /\ result = <<>>

InitBandit(models, cfg) ==
    /\ ~crashed
    /\ Config' = cfg
    /\ Models' = models
    /\ Q' = [m \in Range(models) |-> 0]
    /\ N' = [m \in Range(models) |-> 0]
    /\ T' = 0
    /\ Pending' = EmptyMap
    /\ LastDecision' = zeroDecision
    /\ HasLast' = FALSE
    /\ CurrentOpenID' = ""
    /\ HasOpen' = FALSE
    /\ ret' = Ret("InitBandit", "", "", "")
    /\ hist' = [histInit EXCEPT !.tags = [i \in DOMAIN hist.tags |-> {}]]
    /\ UNCHANGED <<variant, samplesBandit, crashed, predictionVars, result>>

-----------------------------------------------------------------------------
(* ChooseArm *)

\* Pick with the cold-start branch forgetting "Bandit.T++"
Pick_ColdKeepsT(u, k) ==
    LET cold == IF Config.ColdStartRound THEN ColdStartScan(1) ELSE ""
    IN  IF cold # ""
        THEN [panic |-> FALSE, tInc |-> 0, chosen |-> cold, path |-> "cold"]
        ELSE Selection(u, k)

\* Pick with the cold-start round ended by the round counter: the scan is
\* skipped once T has reached the catalog size
Pick_ColdByRounds(u, k) ==
    LET cold == IF Config.ColdStartRound /\ T < Len(Models) THEN ColdStartScan(1) ELSE ""
    IN  IF cold # ""
        THEN [panic |-> FALSE, tInc |-> 1, chosen |-> cold, path |-> "cold"]
        ELSE Selection(u, k)

\* the cold-start branch if it applies, else the switch on the algorithm
Pick(u, k) ==
    LET cold == IF Config.ColdStartRound THEN ColdStartScan(1) ELSE ""
    IN  IF cold # ""
        THEN [panic |-> FALSE, tInc |-> 1, chosen |-> cold, path |-> "cold"]
        ELSE Selection(u, k)

\* the call dies of a panic after T was incremented tInc times
Panic(tInc) ==
    /\ T' = T + tInc
    /\ crashed' = TRUE
    /\ ret' = Ret("ChooseArm", "", "", "panic")
    /\ UNCHANGED <<Config, Models, Q, N, Pending, LastDecision, HasLast, CurrentOpenID,
                   HasOpen, hist>>

\* ReAsk with the round counted before the open decision is noticed
ReAsk_CountsRound ==
    /\ ret' = Ret("ChooseArm", CurrentOpenID, LastDecision.ChosenModel, "reask")
    /\ hist' = HistChoose(CurrentOpenID, LastDecision.ChosenModel, T + 1, "reask")
    /\ T' = T + 1
    /\ UNCHANGED <<Config, Models, Q, N, Pending, LastDecision, HasLast, CurrentOpenID,
                   HasOpen, crashed>>

\* strict build: "if Bandit.HasOpen { return CurrentOpenID, LastDecision.ChosenModel }"
ReAsk ==
    /\ ret' = Ret("ChooseArm", CurrentOpenID, LastDecision.ChosenModel, "reask")
    /\ hist' = HistChoose(CurrentOpenID, LastDecision.ChosenModel, T, "reask")
    /\ UNCHANGED <<banditVars, crashed>>

\* strict build: registers p as the one open decision
RegisterStrict(p) ==
    /\ Pending' = MapSet(Pending, p.DecisionID, p)
    /\ LastDecision' = p
    /\ HasLast' = TRUE
    /\ CurrentOpenID' = p.DecisionID
    /\ HasOpen' = TRUE

ChooseArmStrict(now, u, k) ==
    /\ variant = "strict"
    /\ ~crashed
    /\ Len(hist.returned) < MaxChoose
    /\ IF HasOpen
       THEN ReAsk
       ELSE LET sel == Pick(u, k)
                p   == [DecisionID |-> decisionID(now), ChosenModel |-> sel.chosen,
                        MadeAt |-> now, CooldownUntil |-> ZeroTime]
            IN  IF sel.panic
                THEN Panic(sel.tInc)
                ELSE /\ T' = T + sel.tInc
                     /\ RegisterStrict(p)
                     /\ ret' = Ret("ChooseArm", p.DecisionID, sel.chosen, sel.path)
                     /\ hist' = HistChoose(p.DecisionID, sel.chosen, T + sel.tInc, sel.path)
                     /\ UNCHANGED <<Config, Models, Q, N, crashed>>
    /\ UNCHANGED <<variant, samplesBandit, predictionVars, result>>

\* cooldown build: "if Bandit.HasLast && now.Before(LastDecision.CooldownUntil)"
InCooldown(now) == HasLast /\ now < LastDecision.CooldownUntil

\* Reuse that starts a new cooldown from the time of the reuse
Reuse_ExtendsCooldown(now) ==
    LET cd == now + Config.CooldownWindows * Config.DecisionPeriod
        p  == [DecisionID |-> decisionID(now), ChosenModel |-> LastDecision.ChosenModel,
               MadeAt |-> now, CooldownUntil |-> cd]
    IN  /\ Pending' = MapSet(Pending, p.DecisionID, p)
        /\ LastDecision' = p
        /\ ret' = Ret("ChooseArm", p.DecisionID, p.ChosenModel, "reuse")
        /\ hist' = HistChoose(p.DecisionID, p.ChosenModel, T, "reuse")
        /\ UNCHANGED <<Config, Models, Q, N, T, HasLast, CurrentOpenID, HasOpen, crashed>>

\* cooldown build: re-issue the previous model under a new pending decision
Reuse(now) ==
    LET p == [DecisionID |-> decisionID(now), ChosenModel |-> LastDecision.ChosenModel,
              MadeAt |-> now, CooldownUntil |-> LastDecision.CooldownUntil]
    IN  /\ Pending' = MapSet(Pending, p.DecisionID, p)
        /\ ret' = Ret("ChooseArm", p.DecisionID, p.ChosenModel, "reuse")
        /\ hist' = HistChoose(p.DecisionID, p.ChosenModel, T, "reuse")
        /\ UNCHANGED <<Config, Models, Q, N, T, LastDecision, HasLast, CurrentOpenID,
                       HasOpen, crashed>>

\* cooldown build: register the pending decision and apply the cooldown
RegisterCooldown(p) ==
    /\ Pending' = MapSet(Pending, p.DecisionID, p)
    /\ LastDecision' = p
    /\ HasLast' = TRUE
    /\ UNCHANGED <<CurrentOpenID, HasOpen>>

ChooseArmCooldown(now, u, k) ==
    /\ variant = "cooldown"
    /\ ~crashed
    /\ Len(hist.returned) < MaxChoose
    /\ IF InCooldown(now)
       THEN Reuse(now)
       ELSE LET sel == Pick(u, k)
                cd  == now + Config.CooldownWindows * Config.DecisionPeriod
                p   == [DecisionID |-> decisionID(now), ChosenModel |-> sel.chosen,
                        MadeAt |-> now, CooldownUntil |-> cd]
            IN  IF sel.panic
                THEN Panic(sel.tInc)
                ELSE /\ T' = T + sel.tInc
                     /\ RegisterCooldown(p)
                     /\ ret' = Ret("ChooseArm", p.DecisionID, sel.chosen, sel.path)
                     /\ hist' = HistChoose(p.DecisionID, sel.chosen, T + sel.tInc, sel.path)
                     /\ UNCHANGED <<Config, Models, Q, N, crashed>>
    /\ UNCHANGED <<variant, samplesBandit, predictionVars, result>>

-----------------------------------------------------------------------------
(* UpdateOutcome *)

\* Credit without "delete(Bandit.Pending, decisionID)"
Credit_KeepsPending(id, latencyMs, degrade, saving) ==
    LET p    == Pending[id]
        m    == p.ChosenModel
        r    == Reward(Config, latencyMs, degrade, saving)
        newQ == NewQ(Config, MapGet(Q, m, 0), r)
    IN  /\ Pending' = Pending
        /\ Q' = MapSet(Q, m, newQ)
        /\ N' = MapSet(N, m, MapGet(N, m, 0) + 1)

\* Credit without "Bandit.N[m] = Bandit.N[m] + 1"
Credit_NoCount(id, latencyMs, degrade, saving) ==
    LET p    == Pending[id]
        m    == p.ChosenModel
        r    == Reward(Config, latencyMs, degrade, saving)
        newQ == NewQ(Config, MapGet(Q, m, 0), r)
    IN  /\ Pending' = MapDelete(Pending, id)
        /\ Q' = MapSet(Q, m, newQ)
        /\ N' = MapSet(N, m, MapGet(N, m, 0))

\* Credit given to the model of the last decision made, not to the model
\* stored with the decision being closed
Credit_LastModel(id, latencyMs, degrade, saving) ==
    LET m    == LastDecision.ChosenModel
        r    == Reward(Config, latencyMs, degrade, saving)
        newQ == NewQ(Config, MapGet(Q, m, 0), r)
    IN  /\ Pending' = MapDelete(Pending, id)
        /\ Q' = MapSet(Q, m, newQ)
        /\ N' = MapSet(N, m, MapGet(N, m, 0) + 1)

\* the part both builds share: delete the decision found, credit its model
Credit(id, latencyMs, degrade, saving) ==
    LET p    == Pending[id]
        m    == p.ChosenModel
        r    == Reward(Config, latencyMs, degrade, saving)
        newQ == NewQ(Config, MapGet(Q, m, 0), r)
    IN  /\ Pending' = MapDelete(Pending, id)
        /\ Q' = MapSet(Q, m, newQ)
        /\ N' = MapSet(N, m, MapGet(N, m, 0) + 1)

\* CloseOpen that never clears the open flag
CloseOpen_Never(id) == UNCHANGED <<HasOpen, CurrentOpenID>>

\* strict build: "if Bandit.HasOpen && Bandit.CurrentOpenID == decisionID"
CloseOpen(id) ==
    IF HasOpen /\ CurrentOpenID = id
    THEN HasOpen' = FALSE /\ CurrentOpenID' = ""
    ELSE UNCHANGED <<HasOpen, CurrentOpenID>>

UpdateOutcomeStrict(id, latencyMs, degrade, saving) ==
    IF id \notin DOMAIN Pending
    THEN UNCHANGED banditVars
    ELSE /\ Credit(id, latencyMs, degrade, saving)
         /\ CloseOpen(id)
         /\ UNCHANGED <<Config, Models, T, LastDecision, HasLast>>

UpdateOutcomeCooldown(id, latencyMs, degrade, saving) ==
    IF id \notin DOMAIN Pending
    THEN UNCHANGED banditVars
    ELSE /\ Credit(id, latencyMs, degrade, saving)
         /\ UNCHANGED <<Config, Models, T, LastDecision, HasLast, HasOpen, CurrentOpenID>>

UpdateOutcome(id, latencyMs, degrade, saving) ==
    IF variant = "strict"
    THEN UpdateOutcomeStrict(id, latencyMs, degrade, saving)
    ELSE UpdateOutcomeCooldown(id, latencyMs, degrade, saving)

\* a direct call of UpdateOutcome by the loop
CallUpdateOutcome(id, o) ==
    /\ ~crashed
    /\ UpdateOutcome(id, o.lat, o.deg, o.sav)
    /\ ret' = Ret("UpdateOutcome", id, "",
                  IF id \in DOMAIN Pending THEN "credited" ELSE "unknown")
    /\ hist' = HistClose(id)
    /\ UNCHANGED <<variant, samplesBandit, crashed, predictionVars, result>>

-----------------------------------------------------------------------------
(* The bandit API driven by any caller.  Init starts a run under every      *)
(* catalog and configuration; a re-initialization overwrites the whole       *)
(* selector state, so it is taken with any catalog under the configuration   *)
(* of the run.                                                               *)

Next ==
    \/ \E models \in Catalogs : InitBandit(models, Config)
    \/ \E now \in Times, u \in Uniforms : \E k \in IntnDraws : ChooseArmStrict(now, u, k)
    \/ \E now \in Times, u \in Uniforms : \E k \in IntnDraws : ChooseArmCooldown(now, u, k)
    \/ \E id \in Ids, o \in Outcomes : CallUpdateOutcome(id, o)

Spec == Init /\ [][Next]_vars

-----------------------------------------------------------------------------
(* Metrics accumulation (monitor) and window close (planner) *)

\* settings read through viper
Viper ==
    [baseline_replicas |-> 4, output_bolt_name |-> "Latency", saved_resources_metric |-> 4]

\* the topologies the monitor samples
Topologies ==
    {[Bolts |-> <<[Name |-> "Split", Replicas |-> 1, Output |-> 100],
                  [Name |-> "Latency", Replicas |-> 1, Output |-> 90]>>,
      InputRateT |-> 100, Latency |-> 1000000],
     [Bolts |-> <<[Name |-> "Split", Replicas |-> 2, Output |-> 100],
                  [Name |-> "Latency", Replicas |-> 2, Output |-> 50]>>,
      InputRateT |-> 100, Latency |-> 4000000]}

RECURSIVE TotalReplicas(_)
TotalReplicas(bolts) ==
    IF bolts = <<>> THEN 0 ELSE Head(bolts).Replicas + TotalReplicas(Tail(bolts))

RECURSIVE SumOutputs(_)
SumOutputs(bolts) ==
    IF bolts = <<>> THEN 0 ELSE Head(bolts).Output + SumOutputs(Tail(bolts))

\* strict build: the output of the first bolt of that name, 0 if none
RECURSIVE FirstOutput(_, _)
FirstOutput(bolts, name) ==
    IF bolts = <<>> THEN 0
    ELSE IF Head(bolts).Name = name THEN Head(bolts).Output
    ELSE FirstOutput(Tail(bolts), name)

\* cooldown build: the output of the last bolt of that name, 0 if none
RECURSIVE LastOutput(_, _, _)
LastOutput(bolts, name, output) ==
    IF bolts = <<>> THEN output
    ELSE LastOutput(Tail(bolts), name,
                    IF Head(bolts).Name = name THEN Head(bolts).Output ELSE output)

FAbs(x) == IF IsNaN(x) THEN NaN ELSE IF x < 0 THEN 0 - x ELSE x

\* the sample (saved, degr, latency) the strict build's UpdateBandit appends
SampleStrict(topology) ==
    LET totalReplicas == TotalReplicas(topology.Bolts)
        baseline == IF Viper.baseline_replicas <= 0 THEN totalReplicas
                    ELSE Viper.baseline_replicas
        saved  == clamp01(FDiv(ToFloat(baseline - totalReplicas), ToFloat(baseline)))
        output == IF Viper.output_bolt_name # ""
                  THEN FirstOutput(topology.Bolts, Viper.output_bolt_name)
                  ELSE SumOutputs(topology.Bolts)
        degr   == IF topology.InputRateT <= 0 THEN SCALE
                  ELSE clamp01(FDiv(FAbs(ToFloat(topology.InputRateT) - ToFloat(output)),
                                    ToFloat(topology.InputRateT)))
    IN  [saved |-> saved, degr |-> degr, lat |-> topology.Latency]

\* the sample the cooldown build's UpdateBandit appends
SampleCooldown(topology) ==
    LET totalReplicas == TotalReplicas(topology.Bolts)
        saved  == FDiv(ToFloat(totalReplicas), ToFloat(Viper.saved_resources_metric))
        output == LastOutput(topology.Bolts, "Latency", 0)
        degr   == IF topology.InputRateT = 0 THEN SCALE
                  ELSE FDiv(FAbs(ToFloat(topology.InputRateT) - ToFloat(output)),
                            ToFloat(topology.InputRateT))
    IN  [saved |-> saved, degr |-> degr, lat |-> topology.Latency]

UpdateBandit(topology) ==
    /\ ~crashed
    /\ Len(samplesBandit.Latency) < MaxSamples
    /\ LET s == IF variant = "strict" THEN SampleStrict(topology)
                ELSE SampleCooldown(topology)
       IN  samplesBandit' =
               [SavedResources |-> Append(samplesBandit.SavedResources, s.saved),
                ThroughputDegradation |-> Append(samplesBandit.ThroughputDegradation, s.degr),
                Latency |-> Append(samplesBandit.Latency, s.lat)]
    /\ ret' = Ret("UpdateBandit", "", "", "")
    /\ hist' = [hist EXCEPT !.tags = Append(@, DOMAIN Pending)]
    /\ UNCHANGED <<variant, banditVars, crashed, predictionVars, result>>

RECURSIVE SumSeq(_)
SumSeq(xs) == IF xs = <<>> THEN 0 ELSE FAdd(Head(xs), SumSeq(Tail(xs)))

\* "for _, x := range buf { sum += x }; sum /= float64(len(buf))"
Mean(buf) == FDiv(SumSeq(buf), ToFloat(Len(buf)))

\* the empty-window test taken as true for every window
AnyBufferEmpty_Always == TRUE

\* "if len(samplesBandit.SavedResources) == 0 || ... { return }"
AnyBufferEmpty ==
    \/ Len(samplesBandit.SavedResources) = 0
    \/ Len(samplesBandit.ThroughputDegradation) = 0
    \/ Len(samplesBandit.Latency) = 0

\* the aggregation, the UpdateOutcome call and the clearing of the buffers
AggregateAndClose(id) ==
    /\ UpdateOutcome(id, Mean(samplesBandit.Latency),
                     Mean(samplesBandit.ThroughputDegradation),
                     Mean(samplesBandit.SavedResources))
    /\ samplesBandit' = samplesEmpty
    /\ ret' = Ret("UpdateStatsBandit", id, "",
                  IF id \in DOMAIN Pending THEN "credited" ELSE "unknown")
    /\ hist' = [HistClose(id) EXCEPT !.tags = <<>>]

\* strict build: returns early on an empty id or an empty window
UpdateStatsBanditStrict(id) ==
    IF id = "" \/ AnyBufferEmpty
    THEN /\ ret' = Ret("UpdateStatsBandit", id, "", "skipped")
         /\ UNCHANGED <<banditVars, samplesBandit, hist>>
    ELSE AggregateAndClose(id)

\* cooldown build: aggregates whatever the buffers hold
UpdateStatsBanditCooldown(id) == AggregateAndClose(id)

UpdateStatsBandit(id) ==
    /\ ~crashed
    /\ IF variant = "strict" THEN UpdateStatsBanditStrict(id)
       ELSE UpdateStatsBanditCooldown(id)
    /\ UNCHANGED <<variant, crashed, predictionVars, result>>

-----------------------------------------------------------------------------
(* The MAPE loop: the monitor samples, the planner closes and chooses *)

NextLoop ==
    \/ \E now \in Times, u \in Uniforms : \E k \in IntnDraws : ChooseArmStrict(now, u, k)
    \/ \E now \in Times, u \in Uniforms : \E k \in IntnDraws : ChooseArmCooldown(now, u, k)
    \/ \E topology \in Topologies : UpdateBandit(topology)
    \/ \E id \in StatsIds : UpdateStatsBandit(id)

\* the loop starts from a freshly initialized two-model selector, either
\* build, under UCB1 with cold start off or on and with or without cooldown
InitLoop ==
    /\ variant \in {"strict", "cooldown"}
    /\ \E cfg \in ConfigsOf(variant) :
          /\ cfg.Algorithm = AlgoUCB
          /\ BanditInit(<<"A", "B">>, cfg)
    /\ samplesBandit = samplesEmpty
    /\ crashed = FALSE
    /\ ret = noRet
    /\ hist = histInit
    /\ PredictionIdle
    /\ result = <<>>

SpecLoop == InitLoop /\ [][NextLoop]_vars

-----------------------------------------------------------------------------
(* The loop of the strict build as its comments prescribe it: the monitor   *)
(* keeps sampling, and the planner keeps closing the window with the id of  *)
(* the last ChooseArm and keeps choosing                                    *)

\* the id the last ChooseArm returned, "" before the first one: the strict
\* build returns the id of LastDecision from both paths of ChooseArm
LastReturnedID == IF HasLast THEN LastDecision.DecisionID ELSE ""

MonitorStep == \E topology \in Topologies : UpdateBandit(topology)

PlannerClose == UpdateStatsBandit(LastReturnedID)

PlannerChoose ==
    \E now \in Times, u \in Uniforms : \E k \in IntnDraws : ChooseArmStrict(now, u, k)

NextPlanner ==
    \/ MonitorStep
    \/ PlannerClose
    \/ PlannerChoose

InitPlanner ==
    /\ variant = "strict"
    /\ InitLoop

\* UpdateStatsBandit(LastReturnedID) can be called and changes the state:
\* it closes the window, or it returns early for the first time
CloseEnabled ==
    /\ ~crashed
    /\ (LastReturnedID = "" \/ AnyBufferEmpty) =>
           ret # Ret("UpdateStatsBandit", LastReturnedID, "", "skipped")

\* ChooseArm can be called
ChooseEnabled == ~crashed /\ Len(hist.returned) < MaxChoose

\* each of the three calls is made again and again as long as the bounds of
\* the model allow it: weak fairness of the monitor's call and of the
\* planner's two calls.  For the planner's calls WF_vars(A) is written out
\* as []<>~ENABLED <<A>>_vars \/ []<><<A>>_vars, with the state predicate
\* that ENABLED <<A>>_vars amounts to
SpecPlanner ==
    /\ InitPlanner
    /\ [][NextPlanner]_vars
    /\ WF_vars(MonitorStep)
    /\ ([]<>(~CloseEnabled) \/ []<><<PlannerClose>>_vars)
    /\ ([]<>(~ChooseEnabled) \/ []<><<PlannerChoose>>_vars)

-----------------------------------------------------------------------------
(* The cooldown build called with a clock that never runs backwards *)

\* the timestamps of this loop are 1..MaxClock
MaxClock == 4

ClockTimes == 1..MaxClock

\* the ids ChooseArm issues at these timestamps, and one it never issues
ClockIds == {decisionID(t) : t \in ClockTimes} \cup {"dec_stale"}

\* the timestamp a decision id was made from
TimeOf(id) == CHOOSE t \in ClockTimes : decisionID(t) = id

\* the timestamp of the last ChooseArm, 0 before the first one
LastCallTime ==
    IF hist.returned = <<>> THEN 0
    ELSE TimeOf(hist.returned[Len(hist.returned)].id)

\* both algorithms, cold start on and off, a cooldown of 0, 1 and 2 windows
CooldownConfigs ==
    {BanditConfig(AlgoUCB, 0, cold, cd) : cold \in BOOLEAN, cd \in 0..2}
    \cup {BanditConfig(AlgoEpsilon, 5000, cold, cd) : cold \in BOOLEAN, cd \in 0..2}

\* ChooseArm(now) with now not before the previous call's timestamp
ChooseArmClocked(now, u, k) ==
    /\ now >= LastCallTime
    /\ ChooseArmCooldown(now, u, k)

NextCooldown ==
    \/ \E now \in ClockTimes, u \in Uniforms : \E k \in IntnDraws :
          ChooseArmClocked(now, u, k)
    \/ \E id \in ClockIds, o \in Outcomes : CallUpdateOutcome(id, o)

InitCooldown ==
    /\ variant = "cooldown"
    /\ \E cfg \in CooldownConfigs : BanditInit(<<"A", "B">>, cfg)
    /\ samplesBandit = samplesEmpty
    /\ crashed = FALSE
    /\ ret = noRet
    /\ hist = histInit
    /\ PredictionIdle
    /\ result = <<>>

SpecCooldown == InitCooldown /\ [][NextCooldown]_vars

-----------------------------------------------------------------------------
(* RankTopK, a read-only query of the selector *)

\* RankTopK is asked for k in 0..MaxK
MaxK == 4
\* visit counts of a drawn value table are 0..MaxVisits
MaxVisits == 2

\* the score RankTopK gives model m: Q plus the UCB bonus under UCB1, Q under
\* epsilon-greedy
RankScore(m) ==
    IF Config.Algorithm = AlgoUCB THEN UCBScore(m, T) ELSE MapGet(Q, m, 0)

\* "scores": one pair per catalog model under the two known algorithms, none
\* under any other
RankPairs ==
    IF Config.Algorithm \in {AlgoUCB, AlgoEpsilon}
    THEN [i \in DOMAIN Models |-> [M |-> Models[i], S |-> RankScore(Models[i])]]
    ELSE <<>>

\* the comparison of sort.Slice turned round: ascending scores
RankLess_Ascending(a, b) == FLt(a.S, b.S)

\* "func(i, j int) bool { return scores[i].S > scores[j].S }"
RankLess(a, b) == FGt(a.S, b.S)

Swap(xs, i, j) == [xs EXCEPT ![i] = xs[j], ![j] = xs[i]]

\* sort.Slice on a slice of at most 12 elements is an insertion sort:
\* "for j := i; j > a && less(j, j-1); j-- { swap(j, j-1) }"
RECURSIVE InsertDown(_, _)
InsertDown(xs, j) ==
    IF j > 1 /\ RankLess(xs[j], xs[j - 1]) THEN InsertDown(Swap(xs, j, j - 1), j - 1)
    ELSE xs

\* "for i := a + 1; i < b; i++"
RECURSIVE InsertionSort(_, _)
InsertionSort(xs, i) ==
    IF i > Len(xs) THEN xs ELSE InsertionSort(InsertDown(xs, i), i + 1)

\* RankTopK(k) for k >= 0
RankTopK(k) ==
    LET scores == InsertionSort(RankPairs, 2)
        kk     == IF k > Len(scores) THEN Len(scores) ELSE k
    IN  [i \in 1..kk |-> scores[i].M]

CallRankTopK(k) ==
    /\ ~crashed
    /\ result' = [k |-> k, out |-> RankTopK(k)]
    /\ ret' = Ret("RankTopK", "", "", "")
    /\ UNCHANGED <<variant, banditVars, samplesBandit, crashed, hist, predictionVars>>

\* the value estimates of a drawn value table
RankValues == {0, 698, 5000}

\* a selector between two decision windows: every model credited up to
\* MaxVisits times, no decision pending, the round counter equal to the
\* credits, the last decision one of a credited model
InitRank ==
    /\ variant \in {"strict", "cooldown"}
    /\ Config \in {BanditConfig(AlgoUCB, 0, FALSE, 0), BanditConfig(AlgoEpsilon, 5000, FALSE, 0),
                   BanditConfig("other", 0, FALSE, 0)}
    /\ Models \in Catalogs
    /\ N \in [Range(Models) -> 0..MaxVisits]
    /\ Q \in [Range(Models) -> RankValues]
    /\ \A m \in Range(Models) : N[m] = 0 => Q[m] = 0
    /\ T = SumOver(N, DOMAIN N)
    /\ Pending = EmptyMap
    /\ HasLast = (T > 0)
    /\ IF T = 0 THEN LastDecision = zeroDecision
       ELSE \E m \in {x \in Range(Models) : N[x] > 0} :
               LastDecision = [DecisionID |-> decisionID(1), ChosenModel |-> m, MadeAt |-> 1,
                               CooldownUntil |-> IF variant = "strict" THEN ZeroTime ELSE 1]
    /\ CurrentOpenID = ""
    /\ HasOpen = FALSE
    /\ samplesBandit = samplesEmpty
    /\ crashed = FALSE
    /\ ret = noRet
    /\ hist = histInit
    /\ PredictionIdle
    /\ result = <<>>

NextRank == \E k \in 0..MaxK : CallRankTopK(k)

SpecRank == InitRank /\ [][NextRank]_vars

-----------------------------------------------------------------------------
(* The reward of UpdateOutcome over weights, bounds and metrics *)

\* non-negative weights: the defaults, all on one metric, one metric unused
RewardWeights ==
    {DefaultNumbers.Weights,
     [WLatency |-> 10000, WDegrade |-> 0, WSaving |-> 0],
     [WLatency |-> 0, WDegrade |-> 0, WSaving |-> 10000],
     [WLatency |-> 2000, WDegrade |-> 8000, WSaving |-> 0]}

\* normalization bounds: the defaults, max = min for every metric, and max
\* below min for every metric
RewardBounds ==
    {DefaultNumbers.NormBounds,
     [Latency |-> [Min |-> 500000, Max |-> 500000], Degrade |-> [Min |-> 2500, Max |-> 2500],
      Saving |-> [Min |-> 0, Max |-> 0]],
     [Latency |-> [Min |-> 5000000, Max |-> 500000], Degrade |-> [Min |-> 2500, Max |-> 0],
      Saving |-> [Min |-> 5000, Max |-> 1000]]}

RewardConfigs ==
    {[BanditConfig(AlgoUCB, 0, FALSE, 0) EXCEPT !.Weights = w, !.NormBounds = b] :
        w \in RewardWeights, b \in RewardBounds}

\* the metrics a caller reports: latency of 0, 100, 300 and 600 ms and
\* degradation and saving of -0.1, a value inside the bounds, one above the
\* upper bound and 1.2
RewardGrid ==
    [lat : {0, 1000000, 3000000, 6000000},
     deg : {-1000, 500, 4000, 12000},
     sav : {-1000, 2000, 7000, 12000}]

\* UpdateOutcome called by the loop, with the reward "r" it computed kept
ReportOutcome(id, o) ==
    /\ ~crashed
    /\ UpdateOutcome(id, o.lat, o.deg, o.sav)
    /\ ret' = Ret("UpdateOutcome", id, "",
                  IF id \in DOMAIN Pending THEN "credited" ELSE "unknown")
    /\ hist' = HistClose(id)
    /\ result' = IF id \in DOMAIN Pending
                 THEN [o |-> o, r |-> Reward(Config, o.lat, o.deg, o.sav)]
                 ELSE <<>>
    /\ UNCHANGED <<variant, samplesBandit, crashed, predictionVars>>

\* a selector whose first decision, for model A at time 1, is pending; only
\* the strict build keeps an open decision
InitReward ==
    LET p == [DecisionID |-> decisionID(1), ChosenModel |-> "A", MadeAt |-> 1,
              CooldownUntil |-> IF variant = "strict" THEN ZeroTime ELSE 1]
    IN  /\ variant \in {"strict", "cooldown"}
        /\ Config \in RewardConfigs
        /\ Models = <<"A", "B">>
        /\ Q = [m \in Range(Models) |-> 0]
        /\ N = [m \in Range(Models) |-> 0]
        /\ T = 1
        /\ Pending = MapSet(EmptyMap, p.DecisionID, p)
        /\ LastDecision = p
        /\ HasLast = TRUE
        /\ CurrentOpenID = (IF variant = "strict" THEN p.DecisionID ELSE "")
        /\ HasOpen = (variant = "strict")
        /\ samplesBandit = samplesEmpty
        /\ crashed = FALSE
        /\ ret = Ret("ChooseArm", p.DecisionID, "A", "ucb")
        /\ hist = [histInit EXCEPT !.returned = <<[id |-> p.DecisionID, model |-> "A", t |-> 1,
                                                    path |-> "ucb"]>>,
                                   !.open = p.DecisionID,
                                   !.issued = {p.DecisionID}]
        /\ PredictionIdle
        /\ result = <<>>

NextReward == \E id \in Ids, o \in RewardGrid : ReportOutcome(id, o)

SpecReward == InitReward /\ [][NextReward]_vars

-----------------------------------------------------------------------------
(* The update rule of UpdateOutcome over alpha, gamma and UseAlpha *)

\* Alpha under the EMA rule: below, at and above the ends of (0, 1], and two
\* steps inside
RuleAlphas == {-1000, 0, 1000, 5000, 10000, 12000}

\* Gamma under the discounted rule: below, at and above the ends of (0, 1),
\* and two factors inside
RuleGammas == {-1000, 0, 5000, 9800, 10000, 12000}

RuleConfigs ==
    {[BanditConfig(AlgoUCB, 0, FALSE, 0) EXCEPT !.Alpha = a] : a \in RuleAlphas}
    \cup {[BanditConfig(AlgoUCB, 0, FALSE, 0) EXCEPT !.UseAlpha = FALSE, !.Gamma = g] :
             g \in RuleGammas}

\* the outcomes reported: the one of Outcomes, and the best one (reward 1)
RuleOutcomes == Outcomes \cup {[lat |-> 0, deg |-> 0, sav |-> 7000]}

InitRule ==
    /\ variant \in {"strict", "cooldown"}
    /\ \E cfg \in RuleConfigs : BanditInit(<<"A", "B">>, cfg)
    /\ samplesBandit = samplesEmpty
    /\ crashed = FALSE
    /\ ret = noRet
    /\ hist = histInit
    /\ PredictionIdle
    /\ result = <<>>

NextRule ==
    \/ \E now \in Times, u \in Uniforms : \E k \in IntnDraws : ChooseArmStrict(now, u, k)
    \/ \E now \in Times, u \in Uniforms : \E k \in IntnDraws : ChooseArmCooldown(now, u, k)
    \/ \E id \in Ids, o \in RuleOutcomes : ReportOutcome(id, o)

SpecRule == InitRule /\ [][NextRule]_vars

-----------------------------------------------------------------------------
(* The prediction ensemble: prediction.go *)

\* PredictInput calls in one run
MaxCycles == 2
\* observations the monitor appends to topology.InputRate in one run
MaxInput == 2
\* GetPredictedInputPeriod is asked for the periods 0..MaxPeriod
MaxPeriod == 3

\* the models InitPrediction registers, in catalog order
CatalogNames ==
    <<"basic", "linear_regression", "fft", "random_forest", "ann", "svm", "bayesian",
      "ridge", "sgd">>

Settings(pm, sel, ds, an, ps, pn) ==
    [predictive_model |-> pm, selector_model |-> sel, dataset |-> ds,
     analyze_samples |-> an, prediction_samples |-> ps, prediction_number |-> pn]

\* the values of predictive_model the README lists
ReadmeNames ==
    {"basic", "linear_regression", "fft", "ann", "random_forest", "svg", "svm", "ridge",
     "bayesian"}

\* predictive_model set to a registered name, with an analysis window of one
\* sample; for two of the names also without one
SingleSettings ==
    {Settings(pm, "rmse", "", 1, 2, 1) : pm \in Range(CatalogNames)}
    \cup {Settings(pm, "rmse", "", 0, 1, 2) : pm \in {"basic", "fft"}}

\* predictive_model set to "multi" under the accuracy selector, and to the
\* README's "svg" under an offline table
MultiSettings ==
    {Settings("multi", "rmse", "", 1, 2, 1),
     Settings("svg", "bandit-greedy", "sbac", 1, 2, 1)}

PredictionSettings == SingleSettings \cup MultiSettings

\* the input rates the monitor observes
Rates == {1, 2}

\* the sets of models whose external forecast fails in a cycle
Downs == {{}, {"fft"}}

\* rand.Float64() draws of DeterminatePredictor
TableDraws == {0, 2000, 7000, 9500}

\* "make([]float64, n)"
Zeros(n) == [j \in 1..n |-> 0]

\* int64(x) of a float64: truncation towards zero
Int64(x) == IF x >= 0 THEN x \div SCALE ELSE 0 - ((0 - x) \div SCALE)

NewPrediction(name) ==
    [NameModel |-> name, PredictedInput |-> Zeros(stormCfg.analyze_samples),
     ErrorEstimation |-> 0]

\* the loop "for i := 0; i < len(predictions); i++" of InitPrediction, which
\* replaces the catalog by the entry whose name is the configured one
RECURSIVE SingleScan(_, _, _)
SingleScan(preds, i, name) ==
    IF i > Len(preds) THEN preds
    ELSE IF preds[i].NameModel = name THEN SingleScan(<<preds[i]>>, i + 1, name)
    ELSE SingleScan(preds, i + 1, name)

\* the catalog InitPrediction leaves when it starts from the catalog preds
InitPredictionResult(preds) ==
    LET all == preds \o [i \in 1..Len(CatalogNames) |-> NewPrediction(CatalogNames[i])]
    IN  IF stormCfg.predictive_model # "multi"
        THEN SingleScan(all, 1, stormCfg.predictive_model)
        ELSE all

\* InitPrediction, called once when the process starts
InitPrediction ==
    /\ ~crashed
    /\ pcPredict = "idle"
    /\ predictions = <<>>
    /\ predictions' = InitPredictionResult(predictions)
    /\ ret' = Ret("InitPrediction", "", "", "")
    /\ UNCHANGED <<stormCfg, indexChosenPredictor, InputRate, tasks, wg, pcPredict, cycle>>
    /\ result' = <<>>
    /\ UNCHANGED <<variant, banditVars, samplesBandit, hist, crashed>>

\* the monitor appends one observation to topology.InputRate
Monitor(rate) ==
    /\ ~crashed
    /\ pcPredict = "idle"
    /\ Len(InputRate) < MaxInput
    /\ InputRate' = Append(InputRate, rate)
    /\ ret' = Ret("Monitor", "", "", "")
    /\ UNCHANGED <<stormCfg, predictions, indexChosenPredictor, tasks, wg, pcPredict, cycle>>
    /\ result' = <<>>
    /\ UNCHANGED <<variant, banditVars, samplesBandit, hist, crashed>>

\* the model-specific part of a forecast
Skew(name) == IF name \in {"basic", "random_forest", "sgd"} THEN 1 ELSE 0

\* the external forecasting service: horizon values computed from the samples
\* and the model name, or nothing when the service fails for that model or
\* there is no sample
GetPrediction(samples, horizon, name, down) ==
    IF name \in down \/ samples = <<>> THEN <<>>
    ELSE [j \in 1..horizon |-> ToFloat(samples[1] + Skew(name))]

\* the basic forecast, computed locally from the topology
Simple(rate) ==
    IF rate = <<>> THEN <<>>
    ELSE [j \in 1..stormCfg.prediction_number |-> ToFloat(rate[Len(rate)] + Skew("basic"))]

\* the samples GetPredictionInput hands to the service: the last
\* prediction_samples observations, all of them if there are fewer
Samples(rate) ==
    LET index == IF Len(rate) - stormCfg.prediction_samples < 0 THEN 0
                 ELSE Len(rate) - stormCfg.prediction_samples
    IN  SubSeq(rate, index + 1, Len(rate))

\* AppendTo that stores the new values in place of the buffer
AppendTo_Replaces(preds, i, xs) == [preds EXCEPT ![i].PredictedInput = xs]

\* "predictions[i].PredictedInput = append(predictions[i].PredictedInput, xs...)"
AppendTo(preds, i, xs) == [preds EXCEPT ![i].PredictedInput = @ \o xs]

CycleStart(down) ==
    [n |-> cycle.n + 1,
     before |-> [i \in DOMAIN predictions |-> predictions[i].PredictedInput],
     down |-> down,
     calls |-> [i \in DOMAIN predictions |-> 0]]

\* the goroutines PredictInput starts for the catalog indexes in set
Spawn(set) == [i \in set |-> [pc |-> "spawned", result |-> <<>>]]

\* the single path with every model sent to the forecasting service
SingleIsBasic_Never == FALSE

\* "if viper.GetString("storm.adaptive.predictive_model") == "basic""
SingleIsBasic == stormCfg.predictive_model = "basic"

\* PredictInput up to its wg.Wait(): the basic forecast is appended by the
\* caller itself, every other forecast by a goroutine of its own
PredictInput(down) ==
    /\ ~crashed
    /\ pcPredict = "idle"
    /\ Len(predictions) > 0
    /\ cycle.n < MaxCycles
    /\ cycle' = CycleStart(down)
    /\ IF Len(predictions) = 1
       THEN IF SingleIsBasic
            THEN /\ predictions' = AppendTo(predictions, 1, Simple(InputRate))
                 /\ tasks' = <<>>
                 /\ wg' = 0
                 /\ pcPredict' = "idle"
                 /\ ret' = Ret("PredictInput", "", "", "single-basic")
            ELSE /\ tasks' = Spawn({1})
                 /\ wg' = 1
                 /\ pcPredict' = "wait"
                 /\ ret' = Ret("go", "", "", "single")
                 /\ UNCHANGED predictions
       ELSE /\ predictions' = AppendTo(predictions, 1, Simple(InputRate))
            /\ tasks' = Spawn(2..Len(predictions))
            /\ wg' = Len(predictions) - 1
            /\ pcPredict' = "wait"
            /\ ret' = Ret("go", "", "", "multi")
    /\ UNCHANGED <<stormCfg, indexChosenPredictor, InputRate>>
    /\ result' = <<>>
    /\ UNCHANGED <<variant, banditVars, samplesBandit, hist, crashed>>

\* a goroutine that appends to a copy of the catalog taken when PredictInput
\* started and stores the copy back
TaskAppend_StaleCopy(i, resultsPrediction) ==
    IF Len(resultsPrediction) > 0
    THEN predictions' =
             [j \in DOMAIN predictions |->
                 IF j = i
                 THEN [predictions[j] EXCEPT
                          !.PredictedInput = cycle.before[j] \o resultsPrediction]
                 ELSE [predictions[j] EXCEPT !.PredictedInput = cycle.before[j]]]
    ELSE UNCHANGED predictions

\* a goroutine that pads the buffer with zeros when the service returned
\* nothing
TaskAppend_PadsEmpty(i, resultsPrediction) ==
    IF Len(resultsPrediction) > 0
    THEN predictions' = AppendTo(predictions, i, resultsPrediction)
    ELSE predictions' = AppendTo(predictions, i, Zeros(stormCfg.prediction_number))

\* "if len(resultsPrediction) > 0 { predictions[i].PredictedInput = append(...) }"
TaskAppend(i, resultsPrediction) ==
    IF Len(resultsPrediction) > 0
    THEN predictions' = AppendTo(predictions, i, resultsPrediction)
    ELSE UNCHANGED predictions

\* one goroutine GetPredictionInput(topology, i - 1, &wg), from its start to
\* its deferred wg.Done()
GetPredictionInput(i) ==
    /\ ~crashed
    /\ pcPredict = "wait"
    /\ i \in DOMAIN tasks
    /\ tasks[i].pc = "spawned"
    /\ LET resultsPrediction ==
               GetPrediction(Samples(InputRate), stormCfg.prediction_number,
                             predictions[i].NameModel, cycle.down)
       IN  /\ TaskAppend(i, resultsPrediction)
           /\ tasks' = [tasks EXCEPT ![i] = [pc |-> "done", result |-> resultsPrediction]]
    /\ wg' = wg - 1
    /\ cycle' = [cycle EXCEPT !.calls[i] = @ + 1]
    /\ ret' = Ret("GetPredictionInput", "", predictions[i].NameModel, "")
    /\ UNCHANGED <<stormCfg, indexChosenPredictor, InputRate, pcPredict>>
    /\ result' = <<>>
    /\ UNCHANGED <<variant, banditVars, samplesBandit, hist, crashed>>

\* wg.Wait() returns once the counter is zero, and PredictInput with it
PredictInputReturn ==
    /\ ~crashed
    /\ pcPredict = "wait"
    /\ wg = 0
    /\ pcPredict' = "idle"
    /\ ret' = Ret("PredictInput", "", "",
                  IF Len(predictions) = 1 THEN "single" ELSE "multi")
    /\ UNCHANGED <<stormCfg, predictions, indexChosenPredictor, InputRate, tasks, wg, cycle>>
    /\ result' = <<>>
    /\ UNCHANGED <<variant, banditVars, samplesBandit, hist, crashed>>

-----------------------------------------------------------------------------
(* The accuracy estimator and the selection policies: DeterminatePredictor *)

\* "analyze_samples + prediction_number"
TimeWindow == stormCfg.analyze_samples + stormCfg.prediction_number

\* calculateError reads PredictedInput[i] and input[i] for the 0-based
\* indexes len(input) - timeWindow .. len(input) - 1; the read of model p
\* leaves its buffer or the history when this is true
OutOfRange(p) ==
    /\ TimeWindow > 0
    /\ \/ Len(InputRate) - TimeWindow < 0
       \/ Len(InputRate) > Len(predictions[p].PredictedInput)

RECURSIVE SquaredError(_, _, _)
SquaredError(p, i, last) ==
    IF i > last THEN 0
    ELSE LET d == FSub(predictions[p].PredictedInput[i], ToFloat(InputRate[i]))
         IN  FAdd(FMul(d, d), SquaredError(p, i + 1, last))

\* "math.Sqrt(errorEst / float64(timeWindow))" of model p
RMSE(p) ==
    Sqrt(FDiv(SquaredError(p, Len(InputRate) - TimeWindow + 1, Len(InputRate)),
              ToFloat(TimeWindow)))

\* the first model whose reads leave a buffer, 0 if none does
FirstOutOfRange ==
    LET bad == {p \in DOMAIN predictions : OutOfRange(p)}
    IN  IF bad = {} THEN 0 ELSE CHOOSE p \in bad : \A q \in bad : p <= q

\* calculateError: the catalog with the error of every model before stop
\* overwritten (stop = 0: of every model)
calculateError(stop) ==
    [p \in DOMAIN predictions |->
        IF stop = 0 \/ p < stop
        THEN [predictions[p] EXCEPT !.ErrorEstimation = RMSE(p)]
        ELSE predictions[p]]

\* MinScan with "<=" for "<": the last model of minimum error wins
RECURSIVE MinScan_LastWins(_, _, _, _)
MinScan_LastWins(preds, i, indexPredictor, minErrorEstimation) ==
    IF i > Len(preds) THEN indexPredictor
    ELSE IF FLe(preds[i].ErrorEstimation, minErrorEstimation)
         THEN MinScan_LastWins(preds, i + 1, i - 1, preds[i].ErrorEstimation)
         ELSE MinScan_LastWins(preds, i + 1, indexPredictor, minErrorEstimation)

\* the scan "if predictions[i].ErrorEstimation < minErrorEstimation" from the
\* catalog position i on; indexPredictor is 0-based as in the code
RECURSIVE MinScan(_, _, _, _)
MinScan(preds, i, indexPredictor, minErrorEstimation) ==
    IF i > Len(preds) THEN indexPredictor
    ELSE IF FLt(preds[i].ErrorEstimation, minErrorEstimation)
         THEN MinScan(preds, i + 1, i - 1, preds[i].ErrorEstimation)
         ELSE MinScan(preds, i + 1, indexPredictor, minErrorEstimation)

\* the cumulative bands of an offline table: ANN, Bayesian, SGD
Band(value, a, b) ==
    IF 0 < value /\ value <= a THEN 4
    ELSE IF a < value /\ value <= b THEN 6
    ELSE 8

\* the index a table selector sets for the draw value
TableChoice(selectorModel, dataset, value) ==
    CASE selectorModel = "bandit-greedy" ->
            (CASE dataset = "sbac" -> Band(value, 6870, 9320)
               [] dataset = "dns"  -> Band(value, 6150, 6870)
               [] OTHER -> 0)
      [] selectorModel = "bandit-ucb" ->
            (CASE dataset = "sbac" -> Band(value, 6870, 9320)
               [] dataset = "dns"  -> Band(value, 1670, 2960)
               [] OTHER -> 0)
      [] selectorModel = "bandit-greedy-avg" -> Band(value, 6510, 7900)
      [] selectorModel = "bandit-ucb-avg" -> Band(value, 2760, 7090)
      [] OTHER -> 0

\* DeterminatePredictor that consults the selector for a catalog of one model
NotUsedSelector_Never == FALSE

\* "if len(predictions) == 1": "Not used selector model"
NotUsedSelector == Len(predictions) = 1

DeterminatePredictor(value) ==
    /\ ~crashed
    /\ pcPredict = "idle"
    /\ Len(predictions) > 0
    /\ IF NotUsedSelector
       THEN /\ indexChosenPredictor' = 0
            /\ ret' = Ret("DeterminatePredictor", "", "", "single")
            /\ UNCHANGED <<predictions, crashed>>
       ELSE IF stormCfg.selector_model = "rmse"
       THEN IF FirstOutOfRange # 0
            THEN /\ predictions' = calculateError(FirstOutOfRange)
                 /\ crashed' = TRUE
                 /\ ret' = Ret("DeterminatePredictor", "", "", "panic")
                 /\ UNCHANGED indexChosenPredictor
            ELSE /\ predictions' = calculateError(0)
                 /\ indexChosenPredictor' =
                        MinScan(predictions', 2, 0, predictions'[1].ErrorEstimation)
                 /\ ret' = Ret("DeterminatePredictor", "", "", "rmse")
                 /\ UNCHANGED crashed
       ELSE /\ indexChosenPredictor' =
                   TableChoice(stormCfg.selector_model, stormCfg.dataset, value)
            /\ ret' = Ret("DeterminatePredictor", "", "", "table")
            /\ UNCHANGED <<predictions, crashed>>
    /\ result' = <<>>
    /\ UNCHANGED <<stormCfg, InputRate, tasks, wg, pcPredict, cycle>>
    /\ UNCHANGED <<variant, banditVars, samplesBandit, hist>>

\* "predictions[indexChosenPredictor]" addresses a model of the catalog
ChosenExists == indexChosenPredictor >= 0 /\ indexChosenPredictor < Len(predictions)

\* GetPred(): the chosen model's entry; an index outside the catalog is a
\* panic
GetPred ==
    /\ ~crashed
    /\ pcPredict = "idle"
    /\ Len(predictions) > 0
    /\ IF ChosenExists
       THEN /\ result' = predictions[indexChosenPredictor + 1]
            /\ ret' = Ret("GetPred", "", predictions[indexChosenPredictor + 1].NameModel, "")
            /\ UNCHANGED crashed
       ELSE /\ crashed' = TRUE
            /\ ret' = Ret("GetPred", "", "", "panic-model")
            /\ result' = <<>>
    /\ UNCHANGED predictionVars
    /\ UNCHANGED <<variant, banditVars, samplesBandit, hist>>

\* GetPredictedInputPeriod(period); an index outside the catalog or outside
\* the buffer is a panic
GetPredictedInputPeriod(period) ==
    /\ ~crashed
    /\ pcPredict = "idle"
    /\ Len(predictions) > 0
    /\ IF ~ChosenExists
       THEN /\ crashed' = TRUE
            /\ ret' = Ret("GetPredictedInputPeriod", "", "", "panic-model")
            /\ result' = <<>>
       ELSE LET buffer == predictions[indexChosenPredictor + 1].PredictedInput
                index  == IF period >= Len(buffer) THEN Len(buffer) - 1 ELSE period
            IN  IF index < 0 \/ index >= Len(buffer)
                THEN /\ crashed' = TRUE
                     /\ ret' = Ret("GetPredictedInputPeriod", "", "", "panic")
                     /\ result' = <<>>
                ELSE /\ result' = [period |-> period, value |-> Int64(buffer[index + 1])]
                     /\ ret' = Ret("GetPredictedInputPeriod", "", "", "")
                     /\ UNCHANGED crashed
    /\ UNCHANGED predictionVars
    /\ UNCHANGED <<variant, banditVars, samplesBandit, hist>>

-----------------------------------------------------------------------------
(* The prediction side of the loop: initialize, then monitor, forecast,    *)
(* select and read, one operation at a time; only the goroutines of one     *)
(* PredictInput run concurrently                                            *)

NextPredict ==
    \/ InitPrediction
    \/ \E rate \in Rates : Monitor(rate)
    \/ \E down \in Downs : PredictInput(down)
    \/ \E i \in 1..Len(CatalogNames) : GetPredictionInput(i)
    \/ PredictInputReturn
    \/ \E value \in TableDraws : DeterminatePredictor(value)
    \/ \E period \in 0..MaxPeriod : GetPredictedInputPeriod(period)

\* the process has read its settings and nothing else has run; the bandit
\* selector takes no part
InitPredict ==
    /\ variant = "strict"
    /\ BanditInit(<<>>, BanditConfig(AlgoUCB, 0, FALSE, 0))
    /\ samplesBandit = samplesEmpty
    /\ crashed = FALSE
    /\ ret = noRet
    /\ hist = histInit
    /\ stormCfg \in PredictionSettings
    /\ predictions = <<>>
    /\ indexChosenPredictor = 0
    /\ InputRate = <<>>
    /\ tasks = <<>>
    /\ wg = 0
    /\ pcPredict = "idle"
    /\ cycle = cycleInit
    /\ result = <<>>

SpecPredict == InitPredict /\ [][NextPredict]_vars

-----------------------------------------------------------------------------
(* The selection policy router on its own: any sequence of InitPrediction   *)
(* and DeterminatePredictor calls, under every selector, and the two reads  *)
(* of the chosen model                                                      *)

\* InitPrediction calls in one run
MaxInits == 2

\* the selector_model values DeterminatePredictor tells apart, and one it
\* does not know
SelectorModels ==
    {"rmse", "bandit-greedy", "bandit-ucb", "bandit-greedy-avg", "bandit-ucb-avg", "mab"}

\* the datasets the offline tables are keyed by, and one without a table
Datasets == {"sbac", "dns", "other"}

\* every selector and dataset with the whole catalog ("multi"), with one
\* registered model and with a name InitPrediction does not register; an
\* analysis window of one sample, with and without a forecast horizon
IndexSettings ==
    {Settings(pm, sel, ds, 1, 2, pn) :
        pm \in {"multi", "basic", "fft", "svg"}, sel \in SelectorModels, ds \in Datasets,
        pn \in {0, 1}}

\* InitPrediction called on a catalog that is already initialized: it
\* appends the nine models again before the single-model scan
InitPredictionAgain ==
    /\ ~crashed
    /\ pcPredict = "idle"
    /\ predictions # <<>>
    /\ Len(predictions) + Len(CatalogNames) <= MaxInits * Len(CatalogNames)
    /\ predictions' = InitPredictionResult(predictions)
    /\ ret' = Ret("InitPrediction", "", "", "again")
    /\ UNCHANGED <<stormCfg, indexChosenPredictor, InputRate, tasks, wg, pcPredict, cycle>>
    /\ result' = <<>>
    /\ UNCHANGED <<variant, banditVars, samplesBandit, hist, crashed>>

NextIndex ==
    \/ InitPrediction
    \/ InitPredictionAgain
    \/ \E rate \in Rates : Monitor(rate)
    \/ \E value \in TableDraws : DeterminatePredictor(value)
    \/ GetPred
    \/ \E period \in 0..MaxPeriod : GetPredictedInputPeriod(period)

InitIndex ==
    /\ variant = "strict"
    /\ BanditInit(<<>>, BanditConfig(AlgoUCB, 0, FALSE, 0))
    /\ samplesBandit = samplesEmpty
    /\ crashed = FALSE
    /\ ret = noRet
    /\ hist = histInit
    /\ stormCfg \in IndexSettings
    /\ predictions = <<>>
    /\ indexChosenPredictor = 0
    /\ InputRate = <<>>
    /\ tasks = <<>>
    /\ wg = 0
    /\ pcPredict = "idle"
    /\ cycle = cycleInit
    /\ result = <<>>

SpecIndex == InitIndex /\ [][NextIndex]_vars

-----------------------------------------------------------------------------
(* Claims about the selector's state machine, checked under Spec *)

ABC == <<"A", "B", "C">>

Min(a, b) == IF a < b THEN a ELSE b

PendingCount == Cardinality(DOMAIN Pending)

\* the step is a call of ChooseArm that returned
ChooseArmStep == ret'.op = "ChooseArm" /\ ret'.path # "panic"

\* the step is a call of ChooseArm that made a fresh selection and returned
FreshChooseStep == ChooseArmStep /\ ret'.path \notin {"reask", "reuse"}

\* C1: in the strict build the pending set holds at most one decision, and
\* HasOpen is true exactly when the pending set contains CurrentOpenID
C1_SingleOpen ==
    variant = "strict" =>
        /\ PendingCount <= 1
        /\ HasOpen <=> CurrentOpenID \in DOMAIN Pending

C1_Witness ==
    /\ variant = "strict"
    /\ ret.op = "UpdateOutcome" /\ ret.path = "unknown"
    /\ HasOpen /\ PendingCount = 1
    /\ hist.closes >= 1

\* C2: in the strict build a ChooseArm made while a decision is open returns
\* the open decision's id and its chosen model and leaves Q, N, T and the
\* pending set as they were
C2_ReAskUnchanged ==
    [][(variant = "strict" /\ HasOpen /\ ret'.op = "ChooseArm") =>
          /\ ret'.id = CurrentOpenID
          /\ ret'.model = MapGet(Pending, CurrentOpenID, zeroDecision).ChosenModel
          /\ UNCHANGED <<Q, N, T, Pending, HasOpen, CurrentOpenID>>]_vars

C2_Witness ==
    /\ variant = "strict"
    /\ ret.op = "ChooseArm" /\ ret.path = "reask"
    /\ Len(hist.returned) >= 3
    /\ hist.returned[Len(hist.returned) - 1].path = "reask"

\* C3: UpdateOutcome with an id that is not pending leaves Q, N, T and the
\* pending set unchanged; a second UpdateOutcome with the same id directly
\* after the first changes no Q and no N
C3_UnknownIdNoOp ==
    [][/\ (ret'.op = "UpdateOutcome" /\ ret'.id \notin DOMAIN Pending) =>
              UNCHANGED <<Q, N, T, Pending>>
       /\ (ret.op = "UpdateOutcome" /\ ret'.op = "UpdateOutcome" /\ ret'.id = ret.id) =>
              UNCHANGED <<Q, N>>]_vars

C3_Witness ==
    /\ ret.op = "UpdateOutcome" /\ ret.path = "unknown"
    /\ ret.id \in {decisionID(t) : t \in Times}
    /\ hist.closes >= 1
    /\ PendingCount >= 1

C5_ColdStartOrder ==
    (Config.ColdStartRound /\ hist.clean /\ NoReuse) =>
        \A i \in 1..Min(Len(hist.returned), Len(Models)) :
            hist.returned[i].model = Models[i]

C5_Witness ==
    /\ Config.ColdStartRound /\ hist.clean /\ NoReuse
    /\ hist.open = ""
    /\ Len(Models) = 3
    /\ Len(hist.returned) = 3

\* C6 as claimed: catalog {A, B, C}, cold start, epsilon 0, no cooldown: three
\* successive ChooseArm calls made before any decision is closed return A, B
\* and C, and T is 1, 2 and 3 after the respective calls
C6_Original ==
    (/\ Models = ABC /\ Config.ColdStartRound /\ Config.Epsilon = 0
     /\ Config.CooldownWindows = 0
     /\ hist.closes = 0 /\ ret.op = "ChooseArm") =>
        \A i \in 1..Min(Len(hist.returned), 3) :
            hist.returned[i].model = ABC[i] /\ hist.returned[i].t = i

\* C6 as amended: the same configuration, each decision closed before the next
\* ChooseArm: the three calls return A, B and C and T is 1, 2 and 3 after them
C6_ExampleWithCloses ==
    (/\ Models = ABC /\ Config.ColdStartRound /\ Config.Epsilon = 0
     /\ Config.CooldownWindows = 0
     /\ hist.clean /\ NoReuse) =>
        \A i \in 1..Min(Len(hist.returned), 3) :
            hist.returned[i].model = ABC[i] /\ hist.returned[i].t = i

C6_Witness ==
    /\ Models = ABC /\ Config.ColdStartRound /\ Config.Epsilon = 0
    /\ Config.CooldownWindows = 0
    /\ hist.clean /\ NoReuse
    /\ Len(hist.returned) = 3 /\ T = 3
    /\ ret.op = "ChooseArm" /\ ret.model = "C"

\* C7 as claimed: the key sets of Q and of N both equal the set of catalog
\* model names in every reachable state
C7_Original ==
    /\ DOMAIN Q = Range(Models)
    /\ DOMAIN N = Range(Models)

\* C8 as claimed: a ChooseArm that is neither a re-ask nor a cooldown reuse
\* increments T by exactly 1, adds exactly one decision to the pending set,
\* leaves the selector open, and changes neither Q nor N
C8_Original ==
    [][(Len(Models) > 0 /\ FreshChooseStep) =>
          /\ T' = T + 1
          /\ PendingCount' = PendingCount + 1
          /\ ret'.id \in DOMAIN Pending'
          /\ variant = "strict" => HasOpen'
          /\ UNCHANGED <<Q, N>>]_vars

\* C11 as claimed: a configuration whose algorithm is neither UCB1 nor
\* epsilon-greedy is rejected before the loop begins: under it no ChooseArm
\* call returns a decision and none fails
C11_Original ==
    Config.Algorithm \notin {AlgoUCB, AlgoEpsilon} =>
        /\ Len(hist.returned) = 0
        /\ ~crashed

\* the step is a call of ChooseArm that opened a new pending decision
NewDecisionStep == ChooseArmStep /\ ret'.path # "reask"

\* C22 as claimed: the id of every newly opened decision differs from every
\* id issued since InitBandit, whatever the timestamps of the calls, so
\* opening a decision never overwrites a pending one
C22_Original ==
    [][(Len(Models) > 0 /\ NewDecisionStep) =>
          /\ ret'.id \notin hist.issued
          /\ ret'.id \notin DOMAIN Pending]_vars

\* the timestamp of the ChooseArm call of the step, read back from its id
CallTime == CHOOSE t \in Times : decisionID(t) = ret'.id

\* the step is a ChooseArm call of the cooldown build made before the expiry
\* of the previous decision's cooldown
InCooldownStep ==
    /\ variant = "cooldown"
    /\ ChooseArmStep
    /\ HasLast
    /\ CallTime < LastDecision.CooldownUntil

\* what C23 says of such a call, but for the newness of the decision
C23_ReuseFrame ==
    [][InCooldownStep =>
          /\ ret'.model = LastDecision.ChosenModel
          /\ ret'.id \in DOMAIN Pending'
          /\ Pending'[ret'.id].ChosenModel = LastDecision.ChosenModel
          /\ UNCHANGED <<T, Q, N, LastDecision>>]_vars

\* C23 as claimed: in the cooldown build a ChooseArm call made before the
\* previous decision's cooldown expiry returns the previous decision's model
\* under a new pending decision and leaves T, Q, N and the last decision
\* unchanged, with cold start on or off and unvisited models or none
C23_Original ==
    [][(Len(Models) > 0 /\ InCooldownStep) =>
          /\ ret'.model = LastDecision.ChosenModel
          /\ ret'.id \notin DOMAIN Pending
          /\ ret'.id \in DOMAIN Pending'
          /\ Pending'[ret'.id].ChosenModel = LastDecision.ChosenModel
          /\ UNCHANGED <<T, Q, N, LastDecision>>]_vars

\* the catalog positions of the models never credited
Unvisited == {i \in DOMAIN Models : MapGet(N, Models[i], 0) = 0}

\* C24: with cold start enabled no ChooseArm call takes the UCB1 or the
\* epsilon-greedy path while a catalog model has N = 0, and every call that
\* opens a non-reuse decision then chooses the first catalog model with N = 0
C24_ColdStartFirst ==
    [][(Config.ColdStartRound /\ Unvisited # {} /\ ret'.op = "ChooseArm") =>
          /\ ret'.path \in {"cold", "reask", "reuse"}
          /\ ret'.path = "cold" =>
                /\ ret'.model = Models[CHOOSE i \in Unvisited : \A j \in Unvisited : i <= j]
                /\ Pending'[ret'.id].ChosenModel = ret'.model
                /\ T' = T + 1]_vars

C24_Witness ==
    /\ Config.ColdStartRound
    /\ variant = "cooldown"
    /\ Len(Models) = 3
    /\ ret.op = "ChooseArm" /\ ret.path = "cold" /\ ret.model = "B"
    /\ N["A"] = 2 /\ N["B"] = 0 /\ N["C"] = 0
    /\ T = 3

\* the first model in catalog order whose score is the maximum of the catalog
FirstMaximum(score) ==
    Models[CHOOSE i \in DOMAIN Models :
              /\ \A j \in DOMAIN Models : FLe(score[j], score[i])
              /\ \A j \in 1..(i - 1) : FLt(score[j], score[i])]

\* C27: on the value-based path (UCB1, or the exploit branch of
\* epsilon-greedy) ChooseArm chooses the first model in catalog order that
\* attains the maximum score (UCB score, respectively Q) over the catalog
C27_FirstMaximumWins ==
    [][(Len(Models) > 0 /\ ret'.op = "ChooseArm") =>
          /\ ret'.path = "ucb" =>
                ret'.model = FirstMaximum([i \in DOMAIN Models |-> UCBScore(Models[i], T')])
          /\ ret'.path = "exploit" =>
                ret'.model = FirstMaximum([i \in DOMAIN Models |-> Q[Models[i]]])]_vars

C27_Witness ==
    /\ Len(Models) = 3
    /\ ret.op = "ChooseArm" /\ ret.path = "ucb" /\ ret.model = "B"
    /\ N["A"] = 1 /\ N["B"] = 0 /\ N["C"] = 0
    /\ Q["B"] = Q["C"]
    /\ FGt(UCBScore("B", T), UCBScore("A", T))

\* the step is an UpdateOutcome call that credited the pending decision id to
\* model m and touched nothing else: N(m) grows by 1, only id leaves the
\* pending set, T and the other models' Q and N stay
CreditsOnly(id, m) ==
    /\ N'[m] = N[m] + 1
    /\ DOMAIN Q' = DOMAIN Q /\ DOMAIN N' = DOMAIN N
    /\ \A x \in DOMAIN Q \ {m} : Q'[x] = Q[x] /\ N'[x] = N[x]
    /\ DOMAIN Pending' = DOMAIN Pending \ {id}
    /\ \A x \in DOMAIN Pending' : Pending'[x] = Pending[x]
    /\ T' = T

\* C28: UpdateOutcome on a pending decision changes Q and N only for the
\* model that was chosen when that decision id was issued, even if later
\* decisions chose other models; N of that model grows by exactly 1, only
\* that id leaves the pending set, T and every other model's Q and N are
\* unchanged
C28_CreditsOwnModel ==
    [][/\ (Len(Models) > 0 /\ NewDecisionStep) =>
              Pending'[ret'.id].ChosenModel = ret'.model
       /\ \A x \in (DOMAIN Pending \cap DOMAIN Pending') \ {ret'.id} :
              Pending'[x].ChosenModel = Pending[x].ChosenModel
       /\ (Len(Models) > 0 /\ ret'.op = "UpdateOutcome" /\ ret'.path = "credited") =>
              CreditsOnly(ret'.id, Pending[ret'.id].ChosenModel)]_vars

C28_Witness ==
    /\ variant = "cooldown"
    /\ ret.op = "UpdateOutcome" /\ ret.path = "credited" /\ ret.id = decisionID(1)
    /\ decisionID(2) \in DOMAIN Pending
    /\ LastDecision.DecisionID = decisionID(2)
    /\ LastDecision.ChosenModel = "B"
    /\ N["A"] = 1 /\ N["B"] = 0
    /\ FGt(Q["A"], 0) /\ Q["B"] = 0

\* C29: in the strict build every state reached from InitBandit by ChooseArm
\* and UpdateOutcome calls has T = (sum of N(m) over all models) + (number of
\* pending decisions)
C29_RoundsAccounted ==
    (variant = "strict" /\ ~crashed) => T = SumN + PendingCount

C29_Witness ==
    /\ variant = "strict"
    /\ ~crashed
    /\ Len(Models) = 3
    /\ T = 3
    /\ SumN = 2
    /\ PendingCount = 1
    /\ ret.op = "ChooseArm" /\ ret.path = "ucb"

-----------------------------------------------------------------------------
(* Claims about the reward aggregator, checked under SpecLoop *)

\* C9 as claimed: UpdateStatsBandit for an open decision while an
\* outcome-sample buffer is empty changes no state: the decision stays
\* pending and Q, N, T and the buffers are unchanged
C9_Original ==
    [][(ret'.op = "UpdateStatsBandit" /\ ret'.id \in DOMAIN Pending /\ AnyBufferEmpty) =>
          UNCHANGED <<Q, N, T, Pending, samplesBandit>>]_vars

\* C10 as claimed (strict build): the samples UpdateStatsBandit credits to a decision were all
\* recorded while that decision was open, and the buffers are never cleared
\* of an open decision's samples without crediting them
C10_Original ==
    [][(variant = "strict" /\ ret'.op = "UpdateStatsBandit" /\ ~AnyBufferEmpty) =>
          /\ ret'.path = "credited" =>
                \A i \in DOMAIN hist.tags : ret'.id \in hist.tags[i]
          /\ (samplesBandit' = samplesEmpty /\ ret'.path # "credited") =>
                \A i \in DOMAIN hist.tags : hist.tags[i] \cap DOMAIN Pending = {}]_vars

-----------------------------------------------------------------------------
(* Claims about the prediction ensemble, checked under SpecPredict *)

Buffer(i) == predictions[i].PredictedInput

\* the buffer of model i is what it was when the cycle started, followed by xs
GrewBy(i, xs) == Buffer(i) = cycle.before[i] \o xs

\* PredictInput has just returned
Returned == ret.op = "PredictInput"

\* at the return of PredictInput every goroutine it started has finished and
\* every buffer is the old buffer followed by the whole result of its model
\* (the basic forecast for the model the caller serves itself), or unchanged
\* when that result is empty
Joined ==
    /\ wg = 0
    /\ \A i \in DOMAIN tasks : tasks[i].pc = "done"
    /\ \A i \in DOMAIN predictions :
          LET new == IF i \in DOMAIN tasks THEN tasks[i].result ELSE Simple(InputRate)
          IN  /\ GrewBy(i, new)
              /\ Len(new) \in {0, stormCfg.prediction_number}

\* C12: a forecast task writes only the buffer of its own model, and
\* PredictInput returns only after every task it started has finished, each
\* buffer then holding its complete new result appended or no change
C12_JoinComplete ==
    [][/\ ret'.op = "GetPredictionInput" =>
              \A j \in DOMAIN predictions :
                  predictions[j].NameModel # ret'.model => predictions'[j] = predictions[j]
       /\ ret'.op = "PredictInput" => Joined']_vars

C12_Witness ==
    /\ Returned /\ ret.path = "multi"
    /\ cycle.n = 2
    /\ cycle.down = {"fft"}
    /\ InputRate # <<>>
    /\ \E i \in DOMAIN tasks : tasks[i].result = <<>>
    /\ \E i \in DOMAIN tasks : Len(tasks[i].result) = stormCfg.prediction_number

\* the external computation for model i returned nothing in this cycle
Failed(i) ==
    /\ i \in DOMAIN tasks
    /\ \/ predictions[i].NameModel \in cycle.down
       \/ InputRate = <<>>

\* the result of model i when its computation does not fail
FullResult(i) ==
    IF i \in DOMAIN tasks
    THEN GetPrediction(Samples(InputRate), stormCfg.prediction_number,
                       predictions[i].NameModel, {})
    ELSE Simple(InputRate)

\* C13: a task whose external computation returns nothing leaves its model's
\* buffer unchanged and the computation is asked once only in that cycle,
\* while the buffer of every other model receives its own full result
C13_EmptyResultSkipped ==
    Returned =>
        \A i \in DOMAIN predictions :
            /\ i \in DOMAIN tasks => cycle.calls[i] = 1
            /\ IF Failed(i) THEN GrewBy(i, <<>>) ELSE GrewBy(i, FullResult(i))

C13_Witness ==
    /\ Returned /\ ret.path = "multi"
    /\ \E i \in DOMAIN predictions : Failed(i) /\ Len(Buffer(i)) > 0
    /\ \E i \in DOMAIN predictions :
          i \in DOMAIN tasks /\ ~Failed(i) /\ Len(FullResult(i)) > 0

\* what the multi-model path appends for the model called name: the basic
\* forecast for the first catalog model, the service's forecast for any other
MultiPathValues(name) ==
    IF name = CatalogNames[1] THEN Simple(InputRate)
    ELSE GetPrediction(Samples(InputRate), stormCfg.prediction_number, name, cycle.down)

\* C14: the values PredictInput appends for a model are those the multi-model
\* path appends for it, whether the model is the only one configured or one
\* of the full catalog
C14_SinglePathSameValues ==
    Returned =>
        \A i \in DOMAIN predictions : GrewBy(i, MultiPathValues(predictions[i].NameModel))

C14_Witness ==
    /\ Returned /\ ret.path = "single-basic"
    /\ Len(predictions) = 1
    /\ Len(InputRate) = 2 /\ InputRate[1] # InputRate[2]
    /\ Len(Buffer(1)) > Len(cycle.before[1])

Error(p) == predictions[p].ErrorEstimation

\* after DeterminatePredictor: the accuracy selector has stored the error of
\* every model and chosen the first catalog model of minimum error; with a
\* single model the index is 0 and no error was ever computed
Determined ==
    /\ ret.path = "rmse" =>
          LET chosen == indexChosenPredictor + 1
          IN  /\ \A p \in DOMAIN predictions : Error(p) = RMSE(p)
              /\ \A p \in DOMAIN predictions : FLe(Error(chosen), Error(p))
              /\ \A p \in 1..(chosen - 1) : FGt(Error(p), Error(chosen))
    /\ ret.path = "single" =>
          /\ indexChosenPredictor = 0
          /\ Error(1) = 0

\* C15: with the rmse selector and more than one model DeterminatePredictor
\* chooses the lowest catalog index among the models of minimum RMSE; with
\* one model it chooses index 0 and computes no RMSE
C15_LowestIndexOfMinimum ==
    /\ [](ret.op = "DeterminatePredictor" => Determined)
    /\ [][(ret'.op = "DeterminatePredictor" /\ ret'.path = "single") =>
              predictions' = predictions]_vars

C15_Witness ==
    /\ ret.op = "DeterminatePredictor" /\ ret.path = "rmse"
    /\ indexChosenPredictor > 0
    /\ \E p \in DOMAIN predictions :
          p > indexChosenPredictor + 1 /\ Error(p) = Error(indexChosenPredictor + 1)
    /\ \E p \in DOMAIN predictions : FGt(Error(p), Error(indexChosenPredictor + 1))

\* C17 as claimed: GetPredictedInputPeriod(period) indexes no buffer outside
\* its bounds and returns the chosen model's value at index
\* min(period, length - 1)
C17_Original ==
    ret.op = "GetPredictedInputPeriod" =>
        /\ ret.path # "panic"
        /\ LET buffer == Buffer(indexChosenPredictor + 1)
           IN  result.value = Int64(buffer[Min(result.period, Len(buffer) - 1) + 1])

\* C18 as claimed: after InitPrediction with predictive_model set to a model
\* name the README lists, the catalog holds exactly that one model
C18_Original ==
    (stormCfg.predictive_model \in ReadmeNames /\ predictions # <<>>) =>
        /\ Len(predictions) = 1
        /\ predictions[1].NameModel = stormCfg.predictive_model

\* C19: once InitPrediction has run, no PredictInput and no
\* DeterminatePredictor step shortens a model's forecast buffer or changes a
\* value already in it
C19_BuffersAppendOnly ==
    [][\A i \in DOMAIN predictions :
          /\ i \in DOMAIN predictions'
          /\ predictions'[i].NameModel = predictions[i].NameModel
          /\ Len(predictions'[i].PredictedInput) >= Len(Buffer(i))
          /\ SubSeq(predictions'[i].PredictedInput, 1, Len(Buffer(i))) = Buffer(i)]_vars

C19_Witness ==
    /\ ret.op = "DeterminatePredictor" /\ ret.path = "rmse"
    /\ cycle.n = 2
    /\ \E i \in DOMAIN predictions :
          Len(Buffer(i)) = stormCfg.analyze_samples + 2 * stormCfg.prediction_number
    /\ \E i \in DOMAIN predictions :
          Len(Buffer(i)) = stormCfg.analyze_samples + stormCfg.prediction_number

-----------------------------------------------------------------------------
(* Claims about RankTopK, checked under SpecRank *)

\* C16: under UCB1 and under epsilon-greedy RankTopK(k), k >= 0, returns
\* exactly min(k, |catalog|) distinct catalog models in non-increasing order
\* of their current score, no omitted model scoring higher than a returned
\* one, and the call changes no bandit state
C16_TopKByScore ==
    /\ []((ret.op = "RankTopK" /\ Config.Algorithm \in {AlgoUCB, AlgoEpsilon}) =>
            LET out == result.out
            IN  /\ Len(out) = Min(result.k, Len(Models))
                /\ Range(out) \subseteq Range(Models)
                /\ \A i, j \in DOMAIN out : i # j => out[i] # out[j]
                /\ \A i, j \in DOMAIN out :
                      i < j => FGe(RankScore(out[i]), RankScore(out[j]))
                /\ \A m \in Range(Models) \ Range(out) :
                      \A i \in DOMAIN out : FLe(RankScore(m), RankScore(out[i])))
    /\ [][ret'.op = "RankTopK" => UNCHANGED <<banditVars, samplesBandit>>]_vars

C16_Witness ==
    /\ ret.op = "RankTopK"
    /\ Config.Algorithm = AlgoUCB
    /\ Len(Models) = 3
    /\ result.k = 2
    /\ result.out = <<"C", "A">>
    /\ FGt(RankScore("C"), RankScore("A"))
    /\ FGt(RankScore("A"), RankScore("B"))

-----------------------------------------------------------------------------
(* Claims about the reward, checked under SpecReward *)

\* C20: for fixed non-negative weights and fixed bounds the reward computed
\* by UpdateOutcome never increases when latency or degradation increases
\* and never decreases when saving increases, the other two metrics equal
C20_RewardMonotone ==
    (ret.op = "UpdateOutcome" /\ ret.path = "credited") =>
        LET o == result.o
            r == result.r
        IN  /\ Q["A"] = NewQ(Config, 0, r)
            /\ \A x \in RewardGrid :
                  LET rx == Reward(Config, x.lat, x.deg, x.sav)
                  IN  /\ (x.lat >= o.lat /\ x.deg = o.deg /\ x.sav = o.sav) => FLe(rx, r)
                      /\ (x.deg >= o.deg /\ x.lat = o.lat /\ x.sav = o.sav) => FLe(rx, r)
                      /\ (x.sav >= o.sav /\ x.lat = o.lat /\ x.deg = o.deg) => FGe(rx, r)

C20_Witness ==
    /\ ret.op = "UpdateOutcome"
    /\ ret.path = "credited"
    /\ Config.Weights = DefaultNumbers.Weights
    /\ Config.NormBounds = DefaultNumbers.NormBounds
    /\ result.o = [lat |-> 1000000, deg |-> 500, sav |-> 2000]
    /\ Q["A"] = 698
    /\ FLt(Reward(Config, 3000000, 500, 2000), result.r)
    /\ FLt(Reward(Config, 1000000, 4000, 2000), result.r)
    /\ FGt(Reward(Config, 1000000, 500, 7000), result.r)

-----------------------------------------------------------------------------
(* Claims about the update rule, checked under SpecRule *)

\* the step the update uses: the configured alpha if it lies in (0, 1], else 0.1
EffectiveAlpha == IF Config.Alpha > 0 /\ Config.Alpha <= SCALE THEN Config.Alpha ELSE 1000

\* the factor the update uses: the configured gamma if it lies in (0, 1), else 0.98
EffectiveGamma == IF Config.Gamma > 0 /\ Config.Gamma < SCALE THEN Config.Gamma ELSE 9800

\* C21: UpdateOutcome on a pending decision completes whatever alpha or gamma
\* is configured: an alpha outside (0,1] counts as 0.1, a gamma outside (0,1)
\* as 0.98, the decision leaves the pending set and N of its model grows by 1
C21_RuleDefaults ==
    [][(ret'.op = "UpdateOutcome" /\ ret'.path = "credited") =>
          LET id == ret'.id
              m  == Pending[id].ChosenModel
              r  == result'.r
          IN  /\ ~crashed'
              /\ id \notin DOMAIN Pending'
              /\ N'[m] = N[m] + 1
              /\ Q'[m] = IF Config.UseAlpha
                         THEN FAdd(FMul(SCALE - EffectiveAlpha, Q[m]), FMul(EffectiveAlpha, r))
                         ELSE FAdd(FMul(EffectiveGamma, Q[m]), FMul(SCALE - EffectiveGamma, r))]_vars

C21_Witness ==
    /\ ret.op = "UpdateOutcome" /\ ret.path = "credited"
    /\ ret.id \notin DOMAIN Pending
    /\ Config.UseAlpha
    /\ Config.Alpha = 12000
    /\ N["A"] = 2
    /\ Q["A"] > 698

\* x cut to [0, 1]
Unit(x) == IF x < 0 THEN 0 ELSE IF x > SCALE THEN SCALE ELSE x

\* (x - min) / (max - min) cut to [0, 1], and 0 under bounds with max <= min
Normalized(x, b) ==
    IF b.Max <= b.Min THEN 0 ELSE Unit(FDiv(x - b.Min, b.Max - b.Min))

\* the weighted reward of the clamped normalized metrics of outcome o
WeightedReward(o) ==
    FMul(Config.Weights.WLatency, SCALE - Normalized(o.lat, Config.NormBounds.Latency))
    + FMul(Config.Weights.WDegrade, SCALE - Normalized(Unit(o.deg), Config.NormBounds.Degrade))
    + FMul(Config.Weights.WSaving, Normalized(Unit(o.sav), Config.NormBounds.Saving))

\* C25: UpdateOutcome on a pending decision for model m sets Q(m) to
\* (1-alpha)*Q(m) + alpha*r under the EMA rule and to gamma*Q(m) + (1-gamma)*r
\* under the discounted rule, r the weighted reward of the clamped normalized
\* metrics; for latency 100 ms, degradation 0.05 and saving 0.2 under the
\* default configuration Q(A) goes from 0 to 0.0698 and N(A) to 1
C25_UpdateRule ==
    [][(ret'.op = "UpdateOutcome" /\ ret'.path = "credited") =>
          LET m == Pending[ret'.id].ChosenModel
              o == result'.o
              r == WeightedReward(o)
          IN  /\ Config.UseAlpha =>
                    Q'[m] = ((SCALE - EffectiveAlpha) * Q[m]) \div SCALE
                            + (EffectiveAlpha * r) \div SCALE
              /\ ~Config.UseAlpha =>
                    Q'[m] = (EffectiveGamma * Q[m]) \div SCALE
                            + ((SCALE - EffectiveGamma) * r) \div SCALE
              /\ (/\ Config.UseAlpha /\ Config.Alpha = 1000
                  /\ o = [lat |-> 1000000, deg |-> 500, sav |-> 2000]
                  /\ m = "A" /\ Q["A"] = 0 /\ N["A"] = 0) =>
                    (Q'["A"] = 698 /\ N'["A"] = 1)]_vars

C25_Witness ==
    /\ ret.op = "UpdateOutcome" /\ ret.path = "credited"
    /\ Config.UseAlpha /\ Config.Alpha = 1000
    /\ result.o = [lat |-> 1000000, deg |-> 500, sav |-> 2000]
    /\ Q["A"] = 698
    /\ N["A"] = 1

\* the normalized metrics UpdateOutcome uses in the reward for the raw metrics
\* latencyMs, degrade and saving
NormalizedMetrics(latencyMs, degrade, saving) ==
    <<clamp01(norm01(latencyMs, Config.NormBounds.Latency)),
      clamp01(norm01(clamp01(degrade), Config.NormBounds.Degrade)),
      clamp01(norm01(clamp01(saving), Config.NormBounds.Saving))>>

\* every normalized metric lies in [0, 1] and is 0 under bounds with max <= min
InUnitInterval(normalized) ==
    LET bounds == <<Config.NormBounds.Latency, Config.NormBounds.Degrade,
                    Config.NormBounds.Saving>>
    IN  \A i \in 1..3 :
           /\ FGe(normalized[i], 0)
           /\ FLe(normalized[i], SCALE)
           /\ bounds[i].Max <= bounds[i].Min => normalized[i] = 0

\* what C26 says, for the metric values that are numbers: checked under
\* SpecReward
C26_NumbersNormalized ==
    (ret.op = "UpdateOutcome" /\ ret.path = "credited") =>
        /\ InUnitInterval(NormalizedMetrics(result.o.lat, result.o.deg, result.o.sav))
        /\ ~crashed
        /\ ret.id \notin DOMAIN Pending

-----------------------------------------------------------------------------
(* Claims about the reward in the loop, checked under SpecLoop *)

\* C26 as claimed: for every metric value and every bounds pair the
\* normalized value used in the reward lies in [0,1], is exactly 0 when the
\* bounds satisfy max <= min, and the update completes without a fault
C26_Original ==
    [][(ret'.op = "UpdateStatsBandit" /\ ret'.path = "credited") =>
          /\ InUnitInterval(NormalizedMetrics(Mean(samplesBandit.Latency),
                                              Mean(samplesBandit.ThroughputDegradation),
                                              Mean(samplesBandit.SavedResources)))
          /\ ~crashed']_vars

-----------------------------------------------------------------------------
(* Claims about the accuracy estimator, checked under SpecPredict *)

\* C30 as claimed: under the rmse selector DeterminatePredictor never reads
\* a forecast buffer or the input history outside its bounds, whatever the
\* length of the history and whatever cycles came before, cycles with a
\* skipped append included
C30_Original ==
    stormCfg.selector_model = "rmse" =>
        ~(ret.op = "DeterminatePredictor" /\ ret.path = "panic")

-----------------------------------------------------------------------------
(* Claims about the selection policy router, checked under SpecIndex *)

\* C31: once InitPrediction has run, after any sequence of InitPrediction
\* and DeterminatePredictor calls under any selector_model, predictive_model
\* and dataset, the chosen predictor index is an index of the current
\* catalog, and no GetPred and no GetPredictedInputPeriod addresses a model
\* that does not exist
C31_ChosenIndexValid ==
    /\ predictions # <<>> => ChosenExists
    /\ ret.op \in {"GetPred", "GetPredictedInputPeriod"} => ret.path # "panic-model"

\* C31's case: a table selector has chosen the last model of the catalog,
\* InitPrediction has run again, and GetPred has returned that model
C31_Witness ==
    /\ indexChosenPredictor = 8
    /\ Len(predictions) > Len(CatalogNames)
    /\ ret.op = "GetPred"
    /\ ret.model = "sgd"

-----------------------------------------------------------------------------
(* Claims about the fair loop of the strict build, checked under SpecPlanner *)

\* C32: in the strict build, when the monitor keeps calling UpdateBandit and
\* the planner keeps calling UpdateStatsBandit with the id of the last
\* ChooseArm, every opened decision is eventually closed and credited, a
\* ChooseArm made after the close opens a new decision, and such a
\* ChooseArm comes as long as the run has calls left; the selector never
\* stays open forever
C32_OpenEventuallyClosed ==
    /\ \A n \in 0..MaxChoose :
          (HasOpen /\ hist.closes = n) ~>
              (~HasOpen /\ Pending = EmptyMap /\ hist.closes = n + 1)
    /\ [][(~HasOpen /\ ChooseArmStep) =>
              /\ HasOpen'
              /\ ret'.path # "reask"
              /\ CurrentOpenID' = ret'.id
              /\ ret'.id \in DOMAIN Pending']_vars
    /\ (~HasOpen /\ Len(hist.returned) < MaxChoose) ~> HasOpen
    /\ []<>(~HasOpen)

\* C32's case: a decision was opened and closed through the window close,
\* and the ChooseArm after it has opened the next one
C32_Witness ==
    /\ variant = "strict"
    /\ hist.closes >= 1
    /\ HasOpen
    /\ ret.op = "ChooseArm"
    /\ ret.path # "reask"

-----------------------------------------------------------------------------
(* Claims about the cooldown under a monotone clock, checked under          *)
(* SpecCooldown                                                             *)

\* the calls of ChooseArm so far that were not a cooldown reuse
FreshCalls == {i \in DOMAIN hist.returned : hist.returned[i].path # "reuse"}

\* the expiry set by the last non-reuse decision: its timestamp plus
\* CooldownWindows decision periods
FreshExpiry ==
    LET last == CHOOSE i \in FreshCalls : \A j \in FreshCalls : j <= i
    IN  TimeOf(hist.returned[last].id) + Config.CooldownWindows * Config.DecisionPeriod

\* C33: in the cooldown build under a non-decreasing clock, cooldown reuses
\* never extend the cooldown: the expiry the selector holds is the one set
\* by the last non-reuse decision however many reuses followed it, every
\* ChooseArm before that expiry is a reuse that leaves T alone, and the
\* ChooseArm whose timestamp is at or after it makes a fresh selection and
\* increments T
C33_ReuseKeepsExpiry ==
    /\ [](FreshCalls # {} => HasLast /\ LastDecision.CooldownUntil = FreshExpiry)
    /\ [][(FreshCalls # {} /\ ChooseArmStep) =>
              IF TimeOf(ret'.id) >= FreshExpiry
              THEN ret'.path \in {"cold", "ucb", "exploit", "explore"} /\ T' = T + 1
              ELSE ret'.path = "reuse" /\ T' = T]_vars

\* C33's case: a decision at time 1 with a cooldown of two windows, a reuse
\* at time 2, and at time 3, the expiry, a fresh selection that made T two
C33_Witness ==
    /\ variant = "cooldown"
    /\ Config.CooldownWindows = 2
    /\ Len(hist.returned) = 3
    /\ TimeOf(hist.returned[1].id) = 1
    /\ hist.returned[2].path = "reuse" /\ TimeOf(hist.returned[2].id) = 2
    /\ hist.returned[3].path # "reuse" /\ TimeOf(hist.returned[3].id) = 3
    /\ T = 2

====
